---- MODULE Spec2Model ----
(***************************************************************************)
(* Model of the crossword contribution application (app.py): the two       *)
(* password gates kept in the client session, the contribution pipeline    *)
(* (form validation, sanitizer, validators, duplicate lookup, insert) and  *)
(* the admin export and delete handlers, over an SQLite table.             *)
(*                                                                         *)
(* Text is a sequence of one-character strings.  A request handler that    *)
(* reads the table and then writes it is two steps (the SELECT, then the   *)
(* INSERT or DELETE with its commit): the table can change in between.     *)
(* The write statement and its commit are one step, because SQLite holds   *)
(* its write lock from the statement to the commit.                        *)
(***************************************************************************)
EXTENDS Naturals, Sequences, FiniteSets

(***************************************************************************)
(* Bounds of the model.                                                    *)
(***************************************************************************)
\* the number of pieces a text given to the text functions is made of
MaxLen == 3
\* the number of rows ever inserted (the largest AUTOINCREMENT id)
MaxId == 2
\* the number of seconds CURRENT_TIMESTAMP advances
MaxClock == 1
\* the number of hours the sessions are followed for
MaxHours == 5

(***************************************************************************)
(* Program constants.                                                      *)
(***************************************************************************)
WordMin == 1
WordMax == 50
ClueMin == 10
ClueMax == 200
NameMin == 1
NameMax == 50
MinClueLen == 10
\* PERMANENT_SESSION_LIFETIME, in hours
PERMANENT_SESSION_LIFETIME == 2

(***************************************************************************)
(* Characters and text.                                                    *)
(***************************************************************************)
UpperSeq ==
    << "A", "B", "C", "D", "E", "F", "G", "H", "I", "J", "K", "L", "M",
       "N", "O", "P", "Q", "R", "S", "T", "U", "V", "W", "X", "Y", "Z",
       "À", "Á", "È", "É", "Ì", "Í", "Ò", "Ó", "Ù", "Ú" >>

LowerSeq ==
    << "a", "b", "c", "d", "e", "f", "g", "h", "i", "j", "k", "l", "m",
       "n", "o", "p", "q", "r", "s", "t", "u", "v", "w", "x", "y", "z",
       "à", "á", "è", "é", "ì", "í", "ò", "ó", "ù", "ú" >>

Range(f) == { f[i] : i \in DOMAIN f }

AsciiLetters == { UpperSeq[i] : i \in 1..26 } \cup { LowerSeq[i] : i \in 1..26 }

\* the characters of the class [a-zA-Z...] of is_valid_word
WordLetters == Range(UpperSeq) \cup Range(LowerSeq)

\* the characters str.strip() removes and \s matches
Whitespace == { " ", "\t", "\n", "\r" }

\* str.lower() on one character
LowerChar(ch) ==
    IF ch \in Range(UpperSeq)
    THEN LowerSeq[CHOOSE i \in DOMAIN UpperSeq : UpperSeq[i] = ch]
    ELSE ch

\* str.lower()
lower(s) == [ i \in DOMAIN s |-> LowerChar(s[i]) ]

RECURSIVE lstrip(_)
lstrip(s) ==
    IF s = << >> THEN s
    ELSE IF Head(s) \in Whitespace THEN lstrip(Tail(s))
    ELSE s

RECURSIVE rstrip(_)
rstrip(s) ==
    IF s = << >> THEN s
    ELSE IF s[Len(s)] \in Whitespace THEN rstrip(SubSeq(s, 1, Len(s) - 1))
    ELSE s

\* str.strip()
strip(s) == rstrip(lstrip(s))

\* the position of the first ">" of s (0 when there is none)
FirstGt(s) ==
    IF \E i \in DOMAIN s : s[i] = ">"
    THEN CHOOSE i \in DOMAIN s : s[i] = ">" /\ \A j \in 1..(i - 1) : s[j] # ">"
    ELSE 0

\* s starts a tag: "<" and a letter, or "</" and a letter, closed by a ">"
StartsTag(s) ==
    /\ Len(s) >= 2
    /\ s[1] = "<"
    /\ \/ s[2] \in AsciiLetters
       \/ Len(s) >= 3 /\ s[2] = "/" /\ s[3] \in AsciiLetters
    /\ FirstGt(s) # 0

\* the characters bleach.clean does not copy as they are
Markup == { "<", ">", "&" }

\* the position of the first markup character of s (0 when there is none)
FirstMarkup(s) ==
    IF \E i \in DOMAIN s : s[i] \in Markup
    THEN CHOOSE i \in DOMAIN s : s[i] \in Markup /\ \A j \in 1..(i - 1) : s[j] \notin Markup
    ELSE 0

\* the character references of the texts of the model
Entities ==
    { << "&", "a", "m", "p", ";" >>, << "&", "l", "t", ";" >>, << "&", "g", "t", ";" >> }

\* the length of the character reference s starts with (0 when there is none)
EntityLen(s) ==
    IF \E e \in Entities : Len(s) >= Len(e) /\ SubSeq(s, 1, Len(e)) = e
    THEN Len(CHOOSE e \in Entities : Len(s) >= Len(e) /\ SubSeq(s, 1, Len(e)) = e)
    ELSE 0

\* bleach.clean(text, tags=[], attributes={}, strip=True): every tag is
\* removed, its content stays, a character reference stays, and the markup
\* characters left in the text are written as entities; the text before the
\* first markup character is copied as it is
RECURSIVE bleach_clean(_)
bleach_clean(s) ==
    IF FirstMarkup(s) = 0 THEN s
    ELSE IF FirstMarkup(s) > 1
    THEN SubSeq(s, 1, FirstMarkup(s) - 1)
         \o bleach_clean(SubSeq(s, FirstMarkup(s), Len(s)))
    ELSE IF StartsTag(s) THEN bleach_clean(SubSeq(s, FirstGt(s) + 1, Len(s)))
    ELSE IF Head(s) = "<" THEN << "&", "l", "t", ";" >> \o bleach_clean(Tail(s))
    ELSE IF Head(s) = ">" THEN << "&", "g", "t", ";" >> \o bleach_clean(Tail(s))
    ELSE IF EntityLen(s) > 0
    THEN SubSeq(s, 1, EntityLen(s)) \o bleach_clean(SubSeq(s, EntityLen(s) + 1, Len(s)))
    ELSE << "&", "a", "m", "p", ";" >> \o bleach_clean(Tail(s))

\* sanitize_input: a falsy text is returned as it is
sanitize_input(text) ==
    IF text = << >> THEN text ELSE bleach_clean(strip(text))

\* is_valid_word: ^[letters\s]+$ on the stripped word
is_valid_word(word) ==
    /\ strip(word) # << >>
    /\ \A i \in DOMAIN strip(word) : strip(word)[i] \in WordLetters \cup Whitespace

\* a faulty variant: a clue of 9 characters is long enough
is_valid_clue_NineIsEnough(clue) == Len(strip(clue)) >= MinClueLen - 1

\* is_valid_clue
is_valid_clue(clue) == Len(strip(clue)) >= MinClueLen

\* get_form_password(), get_admin_password(): the defaults
get_form_password == << "b", "i", "a", "n", "c", "a" >>
get_admin_password == << "b", "i", "a", "n", "c", "a", "2", "0", "2", "4" >>

(***************************************************************************)
(* WTForms validation.                                                     *)
(***************************************************************************)
\* DataRequired: the data is there and is not only whitespace
DataRequired(data) == data # << >> /\ strip(data) # << >>

\* Length(min, max)
Length(data, min, max) == Len(data) >= min /\ Len(data) <= max

\* the messages of one field: DataRequired stops the chain when it fails
FieldErrors(data, min, max, required, length) ==
    IF ~DataRequired(data) THEN << required >>
    ELSE IF ~Length(data, min, max) THEN << length >>
    ELSE << >>

\* ContributionForm.errors, in the order of the fields
ContributionErrors(form) ==
    FieldErrors(form.parola, WordMin, WordMax, "word_required", "word_length")
    \o FieldErrors(form.frase_indizio, ClueMin, ClueMax, "clue_required", "clue_length")
    \o FieldErrors(form.nome, NameMin, NameMax, "name_required", "name_length")

\* a faulty variant: the form is taken as valid whatever its errors
ContributionValid_Always(form) == TRUE

\* ContributionForm.validate_on_submit()
ContributionValid(form) == ContributionErrors(form) = << >>

\* a faulty variant: the login forms accept a blank password
LoginValid_Always(password) == TRUE

\* LoginForm / AdminLoginForm .validate_on_submit()
LoginValid(password) == DataRequired(password)

(***************************************************************************)
(* The requests the model sends.                                           *)
(***************************************************************************)
Clients == { "c1", "c2" }

WrongPassword == << "x" >>

\* the passwords submitted to the two login forms
Passwords == { get_form_password, get_admin_password, WrongPassword, << >> }

\* a text with a space before and after it, and a text inside a tag pair
Padded(text) == << " " >> \o text \o << " " >>
Tagged(text) == << "<", "b", ">" >> \o text \o << "<", "/", "b", ">" >>

PasswordCapital == << "B", "i", "a", "n", "c", "a" >>
PasswordBlank == << " " >>

\* the passwords submitted to the login forms by the clients of the gates:
\* also each secret with whitespace around it and with markup around it, the
\* form secret with a capital, and a blank
GatePasswords ==
    Passwords \cup
    { Padded(get_form_password), Tagged(get_form_password),
      Padded(get_admin_password), Tagged(get_admin_password),
      PasswordCapital, PasswordBlank }

WordAb == << "A", "b", " " >>
WordCd == << "c", "d" >>
WordDigit == << "a", "1" >>

\* the words submitted: two valid ones and one with a digit
Words == { WordAb, WordCd, WordDigit }

ClueTen == << "i", "n", "d", "i", "z", "i", "o", " ", "u", "n" >>
ClueNine == << "i", "n", "d", "i", "z", "i", "o", " ", "u" >>
CluePadded == << " " >> \o ClueNine

\* the clues submitted: one of 10 characters, one of 9, and one of 10 that
\* is 9 characters after a space
Clues == { ClueTen, ClueNine, CluePadded }

NameM == << "M" >>
NameTagged == << "<", "i", ">", "N", "<", "/", "i", ">" >>

\* the names submitted: a plain one, one with markup and none
Names == { NameM, NameTagged, << >> }

ContributionForms ==
    [ parola : Words, frase_indizio : Clues, nome : Names ]

\* a text of n characters ch
Repeat(ch, n) == [ i \in 1..n |-> ch ]

WordLowerAb == << "a", "b" >>
WordTab == << "a", "\t", "b" >>
WordOfMax == Repeat("a", WordMax)
WordOverMax == Repeat("a", WordMax + 1)
\* a space and the word inside a tag pair
WordSpaceTagged == Tagged(<< " " >> \o WordLowerAb)

ClueTenCapital == << "I", "n", "d", "i", "z", "i", "o", " ", "u", "n" >>
\* a clue of ClueMax characters, the last one an ampersand
ClueOfMaxAmp == Repeat("c", ClueMax - 1) \o << "&" >>
ClueOverMax == Repeat("c", ClueMax + 1)
\* a clue of ClueMin characters: a space, 8 letters and an ampersand
ClueNineAmp == << " " >> \o Repeat("c", ClueMin - 2) \o << "&" >>
\* the clue of 9 characters inside a tag pair
ClueNineTagged == Tagged(ClueNine)
ClueBlank == Repeat(" ", ClueMin)

NameTagsOnly == << "<", "i", ">", "<", "/", "i", ">" >>
NameOfMax == Repeat("n", NameMax)
NameOverMax == Repeat("n", NameMax + 1)

\* the contributions at the limits of the rules: the same pair in two cases
\* of the word and of the clue, and around a plain contribution one field
\* at a time with a tab, at and over the largest length, with an ampersand,
\* with nothing but markup, blank and empty
BoundaryForms ==
    [ parola : { WordAb, WordLowerAb }, frase_indizio : { ClueTen, ClueTenCapital },
      nome : { NameM } ]
    \cup [ parola : { WordTab, WordOfMax, WordOverMax, WordSpaceTagged, << >> },
           frase_indizio : { ClueTen }, nome : { NameM } ]
    \cup [ parola : { WordLowerAb },
           frase_indizio : { ClueOfMaxAmp, ClueOverMax, CluePadded, ClueNine, ClueNineAmp,
                             ClueNineTagged, ClueBlank },
           nome : { NameM } ]
    \cup [ parola : { WordLowerAb }, frase_indizio : { ClueTen },
           nome : { NameTagsOnly, NameOfMax, NameOverMax, PasswordBlank, << >> } ]

\* the ids of the delete requests: 0, the ids assigned and one never assigned
DeleteIds == 0..(MaxId + 1)

(***************************************************************************)
(* State.                                                                  *)
(***************************************************************************)
VARIABLES
    session,          \* per client: the flags form_access and admin_logged_in
    submissions,      \* the rows of the table submissions
    sqlite_sequence,  \* the largest id AUTOINCREMENT has assigned
    now,              \* CURRENT_TIMESTAMP, in seconds
    handler,          \* per client: the request being handled between two statements
                      \* (of a contribution: the sanitized fields, and in seen the
                      \* largest id assigned when its duplicate lookup ran)
    last,             \* the last request answered, with its response
    hour,             \* the whole hours that have passed
    signed,           \* per client: the hour its session cookie was signed at
    granted,          \* per client and flag: the hour of the last login granted
    store_ok,         \* the database can be opened, read and written
    call              \* the function applied last, its text and what it returned

vars == << session, submissions, sqlite_sequence, now, handler, last, hour, signed,
           granted, store_ok, call >>

Idle == [ pc |-> "idle" ]

\* no function has been applied
NoCall == [ function |-> "", text |-> << >>, result |-> << >> ]

NoRequest == [ method |-> "", route |-> "", id |-> 0, form |-> << >>, csrf_token |-> "" ]

\* a request; the forms are sent with the CSRF token of the session
Request(method, route, id, form) ==
    [ method |-> method, route |-> route, id |-> id, form |-> form,
      csrf_token |-> IF method = "POST" THEN "valid" ELSE "" ]

\* the request without a valid CSRF token
WithoutToken(request) == [ request EXCEPT !.csrf_token = "missing" ]

\* render_template(template, ...) with the messages flashed by this request
Render(template, flash, body) ==
    [ status |-> 200, template |-> template, location |-> "", flash |-> flash,
      body |-> body, headers |-> { } ]

\* redirect(url_for(location))
Redirect(location, flash) ==
    [ status |-> 302, template |-> "", location |-> location, flash |-> flash,
      body |-> << >>, headers |-> { } ]

\* abort(status)
Abort(status) ==
    [ status |-> status, template |-> "", location |-> "", flash |-> << >>,
      body |-> << >>, headers |-> { } ]

\* the headers set_security_headers sets, each with its value
SecurityHeaders ==
    { << "X-Content-Type-Options", "nosniff" >>,
      << "X-Frame-Options", "DENY" >>,
      << "X-XSS-Protection", "1; mode=block" >>,
      << "Strict-Transport-Security", "max-age=31536000; includeSubDomains" >>,
      << "Content-Security-Policy",
         "default-src 'self'; style-src 'self' 'unsafe-inline' https://cdn.jsdelivr.net https://cdnjs.cloudflare.com https://fonts.googleapis.com; font-src 'self' https://fonts.gstatic.com https://cdnjs.cloudflare.com; script-src 'self' https://cdn.jsdelivr.net; img-src 'self' data:; connect-src 'self'" >>,
      << "Referrer-Policy", "strict-origin-when-cross-origin" >> }

\* response.headers[name] = value for every pair of set
SetHeaders(headers, set) ==
    { h \in headers : \A n \in set : h[1] # n[1] } \cup set

\* a faulty variant: the headers are set on the responses with status 200 only
set_security_headers_WhenOk(response) ==
    IF response.status = 200
    THEN [ response EXCEPT !.headers = SetHeaders(@, SecurityHeaders) ]
    ELSE response

\* @app.after_request set_security_headers
set_security_headers(response) ==
    [ response EXCEPT !.headers = SetHeaders(@, SecurityHeaders) ]

\* the response of the handler, and the headers it is sent with after
\* set_security_headers
Answer(c, request, response) ==
    last' = [ client |-> c, request |-> request, response |-> response,
              headers |-> set_security_headers(response).headers ]

\* a session without flags
NoFlags == [ form_access |-> FALSE, admin_logged_in |-> FALSE ]

\* the session a request of client c is handled with: the content of its
\* cookie, or nothing when the cookie was signed more than
\* PERMANENT_SESSION_LIFETIME ago
open_session(c) ==
    IF hour - signed[c] > PERMANENT_SESSION_LIFETIME THEN NoFlags ELSE session[c]

\* a faulty variant: the cookie is sent, and signed again, only with a
\* response of a request that has changed the session
save_session_WhenModified(c, content) ==
    /\ session' = [ session EXCEPT ![c] = content ]
    /\ signed' = [ signed EXCEPT ![c] = IF content = open_session(c) THEN @ ELSE hour ]

\* the session is written to the cookie of the response, signed with the
\* time of the response: a permanent session is sent with every response
save_session(c, content) ==
    /\ session' = [ session EXCEPT ![c] = content ]
    /\ signed' = [ signed EXCEPT ![c] = hour ]

Init ==
    /\ session = [ c \in Clients |-> NoFlags ]
    /\ submissions = { }
    /\ sqlite_sequence = 0
    /\ now = 0
    /\ handler = [ c \in Clients |-> Idle ]
    /\ last = [ client |-> "", request |-> NoRequest, response |-> Abort(0), headers |-> { } ]
    /\ hour = 0
    /\ signed = [ c \in Clients |-> 0 ]
    /\ granted = [ c \in Clients |-> [ form_access |-> 0, admin_logged_in |-> 0 ] ]
    /\ store_ok = TRUE
    /\ call = NoCall

(***************************************************************************)
(* The table.                                                              *)
(***************************************************************************)
\* SELECT * FROM submissions WHERE parola = ? AND frase_indizio = ?
SelectByWordAndClue(rows, parola, frase_indizio) ==
    { r \in rows : r.parola = parola /\ r.frase_indizio = frase_indizio }

\* a faulty variant: the clue and the name are bound to each other's column
InsertRow_Swapped(seq, clock, parola, frase_indizio, nome) ==
    [ id |-> seq + 1, parola |-> parola, frase_indizio |-> nome,
      nome |-> frase_indizio, timestamp |-> clock ]

\* INSERT INTO submissions (parola, frase_indizio, nome): the id is the next
\* AUTOINCREMENT value, the timestamp CURRENT_TIMESTAMP
InsertRow(seq, clock, parola, frase_indizio, nome) ==
    [ id |-> seq + 1, parola |-> parola, frase_indizio |-> frase_indizio,
      nome |-> nome, timestamp |-> clock ]

\* a faulty variant: a UNIQUE constraint on the pair, the conflicting INSERT ignored
InsertInto_UniquePair(rows, row) ==
    IF SelectByWordAndClue(rows, row.parola, row.frase_indizio) # { }
    THEN rows
    ELSE rows \cup { row }

\* a faulty variant: the INSERT also sets the timestamp of the rows stored
InsertInto_TouchesRows(rows, row) ==
    { [ r EXCEPT !.timestamp = row.timestamp ] : r \in rows } \cup { row }

\* the table after the INSERT: the table has no UNIQUE constraint on the pair
InsertInto(rows, row) == rows \cup { row }

\* a faulty variant: the SELECT has lost its WHERE clause
SelectById_NoWhere(rows, submission_id) == rows

\* SELECT id FROM submissions WHERE id = ?
SelectById(rows, submission_id) == { r \in rows : r.id = submission_id }

\* a faulty variant: the DELETE leaves the row in the table
DeleteById_KeepsRow(rows, submission_id) == rows

\* a faulty variant: the DELETE removes every id up to the one given
DeleteById_UpTo(rows, submission_id) == { r \in rows : r.id > submission_id }

\* DELETE FROM submissions WHERE id = ?
DeleteById(rows, submission_id) == { r \in rows : r.id # submission_id }

\* the inserts that handlers have been let through to and not yet made
PendingInserts == Cardinality({ c \in Clients : handler[c].pc = "insert" })

(***************************************************************************)
(* POST / with access_password: the contributor login (index).             *)
(***************************************************************************)
\* a faulty variant: the password is compared with either secret
FormLoginGranted_EitherSecret(password) ==
    sanitize_input(password) \in { get_form_password, get_admin_password }

FormLoginGranted(password) == sanitize_input(password) = get_form_password

IndexLogin(c, pw) ==
    LET request == Request("POST", "index", 0, [ access_password |-> pw ]) IN
    /\ handler[c].pc = "idle"
    /\ IF LoginValid(pw) /\ FormLoginGranted(pw)
       THEN /\ save_session(c, [ open_session(c) EXCEPT !.form_access = TRUE ])
            /\ granted' = [ granted EXCEPT ![c].form_access = hour ]
            /\ Answer(c, request, Redirect("index", << >>))
       ELSE /\ save_session(c, open_session(c))
            /\ UNCHANGED granted
            /\ Answer(c, request,
                      Render("form_login.html",
                             IF LoginValid(pw) THEN << "wrong_password" >> ELSE << >>,
                             << >>))
    /\ UNCHANGED << submissions, sqlite_sequence, now, handler, hour, store_ok, call >>

(***************************************************************************)
(* POST / without access_password: a contribution (index).                 *)
(***************************************************************************)
\* a faulty variant: the duplicate guard finds nothing
IsDuplicate_Never(rows, parola, frase_indizio) == FALSE

\* a faulty variant: the duplicate guard looks the word up as submitted, not lowercased
IsDuplicate_ExactWord(rows, parola, frase_indizio) ==
    SelectByWordAndClue(rows, parola, frase_indizio) # { }

\* a faulty variant: the duplicate guard compares the clues without their case
IsDuplicate_IgnoresClueCase(rows, parola, frase_indizio) ==
    \E r \in rows :
       r.parola = lower(parola) /\ lower(r.frase_indizio) = lower(frase_indizio)

\* the lookup of the duplicate guard
IsDuplicate(rows, parola, frase_indizio) ==
    SelectByWordAndClue(rows, lower(parola), frase_indizio) # { }

\* a faulty variant: the contribution POST does not look at the flag
FormGateOpen_Always(c) == TRUE

\* the gate of the contribution POST
FormGateOpen(c) == open_session(c).form_access

IndexContribution(c, form) ==
    LET request == Request("POST", "index", 0, form)
        parola == sanitize_input(form.parola)
        frase_indizio == sanitize_input(form.frase_indizio)
        nome == sanitize_input(form.nome)
    IN
    /\ handler[c].pc = "idle"
    /\ UNCHANGED << submissions, sqlite_sequence, now, hour, granted, store_ok, call >>
    /\ IF ~FormGateOpen(c)
       THEN /\ Answer(c, request, Redirect("index", << >>))
            /\ save_session(c, open_session(c))
            /\ UNCHANGED handler
       ELSE IF ~ContributionValid(form)
       THEN /\ Answer(c, request, Render("index.html", ContributionErrors(form), << >>))
            /\ save_session(c, open_session(c))
            /\ UNCHANGED handler
       ELSE IF ~is_valid_word(parola)
       THEN /\ Answer(c, request, Render("index.html", << "word_letters_only" >>, << >>))
            /\ save_session(c, open_session(c))
            /\ UNCHANGED handler
       ELSE IF ~is_valid_clue(frase_indizio)
       THEN /\ Answer(c, request, Render("index.html", << "clue_too_short" >>, << >>))
            /\ save_session(c, open_session(c))
            /\ UNCHANGED handler
       ELSE IF ~store_ok
       \* get_db_connection or the SELECT raises: nothing catches it
       THEN /\ Answer(c, request, Abort(500))
            /\ save_session(c, open_session(c))
            /\ UNCHANGED handler
       ELSE IF IsDuplicate(submissions, parola, frase_indizio)
       THEN /\ Answer(c, request, Render("index.html", << "already_recorded" >>, << >>))
            /\ save_session(c, open_session(c))
            /\ UNCHANGED handler
       ELSE /\ sqlite_sequence + PendingInserts < MaxId
            /\ handler' = [ handler EXCEPT ![c] =
                              [ pc |-> "insert", request |-> request, parola |-> parola,
                                frase_indizio |-> frase_indizio, nome |-> nome,
                                seen |-> sqlite_sequence ] ]
            /\ UNCHANGED << session, signed, last >>

\* a faulty variant: the INSERT waits until no other handler is about to insert
IndexInsert_WaitsForOthers(c) ==
    /\ handler[c].pc = "insert"
    /\ \A d \in Clients \ { c } : handler[d].pc # "insert"
    /\ submissions' = InsertInto(submissions,
           InsertRow(sqlite_sequence, now, lower(handler[c].parola),
                     handler[c].frase_indizio, handler[c].nome))
    /\ sqlite_sequence' = sqlite_sequence + 1
    /\ handler' = [ handler EXCEPT ![c] = Idle ]
    /\ Answer(c, handler[c].request,
              Render("success.html", << "thanks" >>, handler[c].nome))
    /\ save_session(c, session[c])
    /\ UNCHANGED << now, hour, granted, store_ok, call >>

\* a faulty variant: the id column is not AUTOINCREMENT, the id of the new row
\* is one more than the largest id in the table
IndexInsert_ReusesRowid(c) ==
    LET rowid == IF submissions = { } THEN 0
                 ELSE CHOOSE n \in { r.id : r \in submissions } :
                         \A r \in submissions : r.id <= n
    IN
    /\ handler[c].pc = "insert"
    /\ IF store_ok
       THEN /\ submissions' = InsertInto(submissions,
                   InsertRow(rowid, now, lower(handler[c].parola),
                             handler[c].frase_indizio, handler[c].nome))
            /\ sqlite_sequence' = rowid + 1
            /\ Answer(c, handler[c].request,
                      Render("success.html", << "thanks" >>, handler[c].nome))
       ELSE /\ Answer(c, handler[c].request, Abort(500))
            /\ UNCHANGED << submissions, sqlite_sequence >>
    /\ handler' = [ handler EXCEPT ![c] = Idle ]
    /\ save_session(c, session[c])
    /\ UNCHANGED << now, hour, granted, store_ok, call >>

\* the INSERT, its commit and the success view; when the INSERT or the
\* commit raises, nothing catches it and nothing is written
IndexInsert(c) ==
    /\ handler[c].pc = "insert"
    /\ IF store_ok
       THEN /\ submissions' = InsertInto(submissions,
                   InsertRow(sqlite_sequence, now, lower(handler[c].parola),
                             handler[c].frase_indizio, handler[c].nome))
            /\ sqlite_sequence' = sqlite_sequence + 1
            /\ Answer(c, handler[c].request,
                      Render("success.html", << "thanks" >>, handler[c].nome))
       ELSE /\ Answer(c, handler[c].request, Abort(500))
            /\ UNCHANGED << submissions, sqlite_sequence >>
    /\ handler' = [ handler EXCEPT ![c] = Idle ]
    /\ save_session(c, session[c])
    /\ UNCHANGED << now, hour, granted, store_ok, call >>

(***************************************************************************)
(* GET / (index).                                                          *)
(***************************************************************************)
IndexGet(c) ==
    /\ handler[c].pc = "idle"
    /\ Answer(c, Request("GET", "index", 0, << >>),
              IF ~FormGateOpen(c)
              THEN Render("form_login.html", << >>, << >>)
              ELSE Render("index.html", << >>, << >>))
    /\ save_session(c, open_session(c))
    /\ UNCHANGED << submissions, sqlite_sequence, now, handler, hour, granted, store_ok, call >>

(***************************************************************************)
(* POST /admin: the admin login (admin).                                   *)
(***************************************************************************)
AdminLoginGranted(password) == sanitize_input(password) = get_admin_password

AdminLogin(c, pw) ==
    LET request == Request("POST", "admin", 0, [ password |-> pw ]) IN
    /\ handler[c].pc = "idle"
    /\ IF LoginValid(pw) /\ AdminLoginGranted(pw)
       THEN /\ save_session(c, [ open_session(c) EXCEPT !.admin_logged_in = TRUE ])
            /\ granted' = [ granted EXCEPT ![c].admin_logged_in = hour ]
            /\ Answer(c, request, Redirect("admin", << >>))
       ELSE /\ save_session(c, open_session(c))
            /\ UNCHANGED granted
            /\ Answer(c, request,
                      Render("admin_login.html",
                             IF LoginValid(pw) THEN << "wrong_password" >> ELSE << >>,
                             << >>))
    /\ UNCHANGED << submissions, sqlite_sequence, now, handler, hour, store_ok, call >>

(***************************************************************************)
(* GET /admin: the dashboard (admin).                                      *)
(***************************************************************************)
\* a faulty variant: the admin routes accept either flag
AdminGateOpen_EitherFlag(c) ==
    open_session(c).admin_logged_in \/ open_session(c).form_access

\* the gate of the admin routes
AdminGateOpen(c) == open_session(c).admin_logged_in

\* SELECT ... ORDER BY timestamp DESC: every order of the rows in which the
\* timestamps do not increase (rows of one second come in any order)
OrderByTimestampDesc(rows) ==
    { s \in [ 1..Cardinality(rows) -> rows ] :
        /\ \A i, j \in DOMAIN s : i # j => s[i] # s[j]
        /\ \A i, j \in DOMAIN s : i < j => s[i].timestamp >= s[j].timestamp }

\* a faulty variant: the dashboard does not look at the flag
AdminGet_NoGate(c) ==
    /\ handler[c].pc = "idle"
    /\ \E listed \in OrderByTimestampDesc(submissions) :
          Answer(c, Request("GET", "admin", 0, << >>),
                 Render("admin.html", << >>, listed))
    /\ save_session(c, open_session(c))
    /\ UNCHANGED << submissions, sqlite_sequence, now, handler, hour, granted, store_ok, call >>

AdminGet(c) ==
    /\ handler[c].pc = "idle"
    /\ IF ~AdminGateOpen(c)
       THEN Answer(c, Request("GET", "admin", 0, << >>),
                   Render("admin_login.html", << >>, << >>))
       ELSE IF ~store_ok
       \* get_db_connection or the SELECT raises: nothing catches it
       THEN Answer(c, Request("GET", "admin", 0, << >>), Abort(500))
       ELSE \E listed \in OrderByTimestampDesc(submissions) :
               Answer(c, Request("GET", "admin", 0, << >>),
                      Render("admin.html", << >>, listed))
    /\ save_session(c, open_session(c))
    /\ UNCHANGED << submissions, sqlite_sequence, now, handler, hour, granted, store_ok, call >>

(***************************************************************************)
(* GET /admin/export (export_csv).                                         *)
(***************************************************************************)
Anonimo == << "A", "n", "o", "n", "i", "m", "o" >>

CsvHeader == << "Parola", "Frase Indizio", "Nome", "Data" >>

\* one line of the export: nome or 'Anonimo'
CsvLine(r) ==
    << r.parola, r.frase_indizio, IF r.nome = << >> THEN Anonimo ELSE r.nome,
       r.timestamp >>

\* the header and one line per row selected
CsvOutput(listed) == << CsvHeader >> \o [ i \in DOMAIN listed |-> CsvLine(listed[i]) ]

\* the headers export_csv sets on its response
CsvHeaders ==
    { << "Content-Type", "text/csv; charset=utf-8" >>,
      << "Content-Disposition", "attachment; filename=cruciverba_bianca.csv" >>,
      << "Cache-Control", "no-cache, no-store, must-revalidate" >>,
      << "Pragma", "no-cache" >>,
      << "Expires", "0" >> }

\* the response of the export: the CSV as an attachment, not cached
CsvResponse(listed) ==
    [ status |-> 200, template |-> "text/csv", location |-> "", flash |-> << >>,
      body |-> CsvOutput(listed), headers |-> SetHeaders({ }, CsvHeaders) ]

\* a faulty variant: the export removes the rows it has written out
ExportCsv_EmptiesTable(c) ==
    /\ handler[c].pc = "idle"
    /\ IF ~AdminGateOpen(c)
       THEN /\ Answer(c, Request("GET", "export_csv", 0, << >>), Abort(403))
            /\ UNCHANGED submissions
       ELSE IF ~store_ok
       THEN /\ Answer(c, Request("GET", "export_csv", 0, << >>),
                      Redirect("admin", << "export_failed" >>))
            /\ UNCHANGED submissions
       ELSE /\ \E listed \in OrderByTimestampDesc(submissions) :
                 Answer(c, Request("GET", "export_csv", 0, << >>), CsvResponse(listed))
            /\ submissions' = { }
    /\ save_session(c, open_session(c))
    /\ UNCHANGED << sqlite_sequence, now, handler, hour, granted, store_ok, call >>

\* a faulty variant: the export has no except clause
ExportCsv_Uncaught(c) ==
    /\ handler[c].pc = "idle"
    /\ IF ~AdminGateOpen(c)
       THEN Answer(c, Request("GET", "export_csv", 0, << >>), Abort(403))
       ELSE IF ~store_ok
       THEN Answer(c, Request("GET", "export_csv", 0, << >>), Abort(500))
       ELSE \E listed \in OrderByTimestampDesc(submissions) :
               Answer(c, Request("GET", "export_csv", 0, << >>), CsvResponse(listed))
    /\ save_session(c, open_session(c))
    /\ UNCHANGED << submissions, sqlite_sequence, now, handler, hour, granted, store_ok, call >>

ExportCsv(c) ==
    /\ handler[c].pc = "idle"
    /\ IF ~AdminGateOpen(c)
       THEN Answer(c, Request("GET", "export_csv", 0, << >>), Abort(403))
       ELSE IF ~store_ok
       \* except Exception: the flash and the redirect
       THEN Answer(c, Request("GET", "export_csv", 0, << >>),
                   Redirect("admin", << "export_failed" >>))
       ELSE \E listed \in OrderByTimestampDesc(submissions) :
               Answer(c, Request("GET", "export_csv", 0, << >>), CsvResponse(listed))
    /\ save_session(c, open_session(c))
    /\ UNCHANGED << submissions, sqlite_sequence, now, handler, hour, granted, store_ok, call >>

(***************************************************************************)
(* POST /admin/delete/<int:submission_id> (delete_submission).             *)
(***************************************************************************)
DeleteSubmission(c, submission_id) ==
    LET request == Request("POST", "delete_submission", submission_id, << >>) IN
    /\ handler[c].pc = "idle"
    /\ UNCHANGED << submissions, sqlite_sequence, now, hour, granted, store_ok, call >>
    /\ IF ~AdminGateOpen(c)
       THEN /\ Answer(c, request, Abort(403))
            /\ save_session(c, open_session(c))
            /\ UNCHANGED handler
       ELSE IF submission_id <= 0
       \* abort(400) is raised inside the try and caught by except Exception
       THEN /\ Answer(c, request, Redirect("admin", << "delete_failed" >>))
            /\ save_session(c, open_session(c))
            /\ UNCHANGED handler
       ELSE IF ~store_ok
       \* get_db_connection or the SELECT raises: except Exception
       THEN /\ Answer(c, request, Redirect("admin", << "delete_failed" >>))
            /\ save_session(c, open_session(c))
            /\ UNCHANGED handler
       ELSE IF SelectById(submissions, submission_id) = { }
       THEN /\ Answer(c, request, Redirect("admin", << "not_found" >>))
            /\ save_session(c, open_session(c))
            /\ UNCHANGED handler
       ELSE /\ handler' = [ handler EXCEPT ![c] =
                              [ pc |-> "delete", request |-> request,
                                submission_id |-> submission_id ] ]
            /\ UNCHANGED << session, signed, last >>

\* a faulty variant: the DELETE waits until no other handler is about to write
DeleteCommit_WaitsForWriters(c) ==
    /\ handler[c].pc = "delete"
    /\ \A d \in Clients \ { c } : handler[d].pc = "idle"
    /\ IF store_ok
       THEN /\ submissions' = DeleteById(submissions, handler[c].submission_id)
            /\ Answer(c, handler[c].request, Redirect("admin", << "deleted" >>))
       ELSE /\ UNCHANGED submissions
            /\ Answer(c, handler[c].request, Redirect("admin", << "delete_failed" >>))
    /\ handler' = [ handler EXCEPT ![c] = Idle ]
    /\ save_session(c, session[c])
    /\ UNCHANGED << sqlite_sequence, now, hour, granted, store_ok, call >>

\* the DELETE, its commit and the redirect; when the DELETE or the commit
\* raises, except Exception: nothing is committed
DeleteCommit(c) ==
    /\ handler[c].pc = "delete"
    /\ IF store_ok
       THEN /\ submissions' = DeleteById(submissions, handler[c].submission_id)
            /\ Answer(c, handler[c].request, Redirect("admin", << "deleted" >>))
       ELSE /\ UNCHANGED submissions
            /\ Answer(c, handler[c].request, Redirect("admin", << "delete_failed" >>))
    /\ handler' = [ handler EXCEPT ![c] = Idle ]
    /\ save_session(c, session[c])
    /\ UNCHANGED << sqlite_sequence, now, hour, granted, store_ok, call >>

\* a path whose id segment the converter <int:submission_id> does not match
MalformedDeletePath == "/admin/delete/invalid"

\* POST /admin/delete/invalid: no URL rule matches, delete_submission is not
\* called and the routing answers 404, whatever the session holds
DeleteUnrouted(c) ==
    /\ handler[c].pc = "idle"
    /\ Answer(c, Request("POST", MalformedDeletePath, 0, << >>), Abort(404))
    /\ save_session(c, open_session(c))
    /\ UNCHANGED << submissions, sqlite_sequence, now, handler, hour, granted, store_ok, call >>

(***************************************************************************)
(* GET /admin/logout, GET /logout.                                         *)
(***************************************************************************)
AdminLogout(c) ==
    /\ handler[c].pc = "idle"
    /\ save_session(c, [ open_session(c) EXCEPT !.admin_logged_in = FALSE ])
    /\ Answer(c, Request("GET", "admin_logout", 0, << >>), Redirect("index", << >>))
    /\ UNCHANGED << submissions, sqlite_sequence, now, handler, hour, granted, store_ok, call >>

\* a faulty variant: the logout clears the whole session
FormLogout_ClearsSession(c) ==
    /\ handler[c].pc = "idle"
    /\ save_session(c, NoFlags)
    /\ Answer(c, Request("GET", "form_logout", 0, << >>),
              Redirect("index", << "logged_out" >>))
    /\ UNCHANGED << submissions, sqlite_sequence, now, handler, hour, granted, store_ok, call >>

FormLogout(c) ==
    /\ handler[c].pc = "idle"
    /\ save_session(c, [ open_session(c) EXCEPT !.form_access = FALSE ])
    /\ Answer(c, Request("GET", "form_logout", 0, << >>),
              Redirect("index", << "logged_out" >>))
    /\ UNCHANGED << submissions, sqlite_sequence, now, handler, hour, granted, store_ok, call >>

(***************************************************************************)
(* Requests refused before their view function runs: CSRFProtect and the   *)
(* Limiter.                                                                *)
(***************************************************************************)
\* handle_csrf_error: the flash, and redirect(url_for('index')) returned
\* with the status 400
handle_csrf_error ==
    [ Redirect("index", << "security_error" >>) EXCEPT !.status = 400 ]

\* ratelimit_handler: error.html with the status 429
ratelimit_handler == [ Render("error.html", << >>, << >>) EXCEPT !.status = 429 ]

\* a POST of client c whose CSRF token is missing or not valid: CSRFProtect
\* raises CSRFError before the view function is called
CsrfRejected(c, request) ==
    /\ handler[c].pc = "idle"
    /\ request.method = "POST"
    /\ Answer(c, WithoutToken(request), handle_csrf_error)
    /\ save_session(c, open_session(c))
    /\ UNCHANGED << submissions, sqlite_sequence, now, handler, hour, granted, store_ok, call >>

\* a request of client c over a limit of its route: the Limiter raises
\* before the view function is called
RateLimited(c, request) ==
    /\ handler[c].pc = "idle"
    /\ Answer(c, request, ratelimit_handler)
    /\ save_session(c, open_session(c))
    /\ UNCHANGED << submissions, sqlite_sequence, now, handler, hour, granted, store_ok, call >>

(***************************************************************************)
(* The clock of the store.                                                 *)
(***************************************************************************)
Tick ==
    /\ now < MaxClock
    /\ now' = now + 1
    /\ UNCHANGED << session, submissions, sqlite_sequence, handler, last, hour, signed,
                    granted, store_ok, call >>

\* the database stops answering, or answers again
StoreFault ==
    /\ store_ok' = ~store_ok
    /\ UNCHANGED << session, submissions, sqlite_sequence, now, handler, last, hour,
                    signed, granted, call >>

\* an hour passes
Hour ==
    /\ hour < MaxHours
    /\ hour' = hour + 1
    /\ UNCHANGED << session, submissions, sqlite_sequence, now, handler, last, signed,
                    granted, store_ok, call >>

(***************************************************************************)
(* The specification: one visitor and every route.                         *)
(***************************************************************************)
Visitor == "c1"

Next ==
    \/ \E pw \in Passwords : IndexLogin(Visitor, pw)
    \/ \E form \in ContributionForms : IndexContribution(Visitor, form)
    \/ IndexInsert(Visitor)
    \/ IndexGet(Visitor)
    \/ \E pw \in Passwords : AdminLogin(Visitor, pw)
    \/ AdminGet(Visitor)
    \/ ExportCsv(Visitor)
    \/ \E id \in DeleteIds : DeleteSubmission(Visitor, id)
    \/ DeleteCommit(Visitor)
    \/ DeleteUnrouted(Visitor)
    \/ AdminLogout(Visitor)
    \/ FormLogout(Visitor)
    \/ Tick

Spec == Init /\ [][Next]_vars

(***************************************************************************)
(* The specification of concurrent requests: two clients that hold both    *)
(* gates send contributions and delete requests, and the handlers          *)
(* interleave statement by statement.                                      *)
(***************************************************************************)
\* the contributions of the concurrent clients: two pairs, two names
RaceForms ==
    [ parola : { WordAb, WordCd }, frase_indizio : { ClueTen }, nome : { NameM, NameTagged } ]

InitRace ==
    /\ session = [ c \in Clients |-> [ form_access |-> TRUE, admin_logged_in |-> TRUE ] ]
    /\ submissions = { }
    /\ sqlite_sequence = 0
    /\ now = 0
    /\ handler = [ c \in Clients |-> Idle ]
    /\ last = [ client |-> "", request |-> NoRequest, response |-> Abort(0), headers |-> { } ]
    /\ hour = 0
    /\ signed = [ c \in Clients |-> 0 ]
    /\ granted = [ c \in Clients |-> [ form_access |-> 0, admin_logged_in |-> 0 ] ]
    /\ store_ok = TRUE
    /\ call = NoCall

NextRace ==
    \/ \E c \in Clients, form \in RaceForms : IndexContribution(c, form)
    \/ \E c \in Clients : IndexInsert(c)
    \/ \E c \in Clients, id \in DeleteIds : DeleteSubmission(c, id)
    \/ \E c \in Clients : DeleteCommit(c)
    \/ Tick

SpecRace == InitRace /\ [][NextRace]_vars

\* a handler that has run its lookup goes on to its INSERT or DELETE
SpecRaceFair ==
    /\ SpecRace
    /\ \A c \in Clients : WF_vars(IndexInsert(c)) /\ WF_vars(DeleteCommit(c))

(***************************************************************************)
(* The specification of the gates: two clients, each with its own session, *)
(* log in with every password, look at the gated views and log out.        *)
(***************************************************************************)
NextGates ==
    \/ \E c \in Clients, pw \in GatePasswords : IndexLogin(c, pw)
    \/ \E c \in Clients, pw \in GatePasswords : AdminLogin(c, pw)
    \/ \E c \in Clients : IndexGet(c)
    \/ \E c \in Clients : AdminGet(c)
    \/ \E c \in Clients : FormLogout(c)
    \/ \E c \in Clients : AdminLogout(c)

SpecGates == Init /\ [][NextGates]_vars

(***************************************************************************)
(* The specification of the session lifetime: one visitor logs in at the   *)
(* two gates, asks for the gated views and logs out, while hours pass.     *)
(***************************************************************************)
NextLifetime ==
    \/ IndexLogin(Visitor, get_form_password)
    \/ AdminLogin(Visitor, get_admin_password)
    \/ IndexGet(Visitor)
    \/ AdminGet(Visitor)
    \/ FormLogout(Visitor)
    \/ Hour

SpecLifetime == Init /\ [][NextLifetime]_vars

(***************************************************************************)
(* The specification of the contribution form: a visitor that holds the    *)
(* gate submits the contributions at the limits of the rules.              *)
(***************************************************************************)
NextForms ==
    \/ \E form \in BoundaryForms : IndexContribution(Visitor, form)
    \/ IndexInsert(Visitor)

SpecForms == InitRace /\ [][NextForms]_vars

(***************************************************************************)
(* The specification of the admin routes: two clients that hold both       *)
(* gates contribute, list, export and delete while the clock advances and  *)
(* the database stops and starts answering.                                *)
(***************************************************************************)
\* the contributions: two words, the name plain or markup only (stored
\* empty)
AdminForms ==
    [ parola : { WordLowerAb, WordCd }, frase_indizio : { ClueTen },
      nome : { NameM, NameTagsOnly } ]

NextAdmin ==
    \/ \E form \in AdminForms : IndexContribution(Visitor, form)
    \/ IndexInsert(Visitor)
    \/ \E c \in Clients : AdminGet(c)
    \/ \E c \in Clients : ExportCsv(c)
    \/ \E c \in Clients, id \in DeleteIds : DeleteSubmission(c, id)
    \/ \E c \in Clients : DeleteCommit(c)
    \/ Tick
    \/ StoreFault

SpecAdmin == InitRace /\ [][NextAdmin]_vars

(***************************************************************************)
(* The specification of the repeated contribution: two clients that hold   *)
(* both gates submit one and the same contribution and delete its rows.    *)
(***************************************************************************)
RepeatedForm == [ parola |-> WordLowerAb, frase_indizio |-> ClueTen, nome |-> NameM ]

NextRepeated ==
    \/ \E c \in Clients : IndexContribution(c, RepeatedForm)
    \/ \E c \in Clients : IndexInsert(c)
    \/ \E c \in Clients, id \in DeleteIds : DeleteSubmission(c, id)
    \/ \E c \in Clients : DeleteCommit(c)
    \/ Tick

SpecRepeated == InitRace /\ [][NextRepeated]_vars

(***************************************************************************)
(* The specification of the admin's reads: one client logs in at the form  *)
(* gate and contributes; the visitor logs in and out of the admin gate and *)
(* asks for the dashboard and the export, within and over the limits of    *)
(* the routes, while hours pass and the database stops and starts          *)
(* answering.                                                              *)
(***************************************************************************)
Contributor == "c2"

ReadForms ==
    [ parola : { WordLowerAb, WordCd }, frase_indizio : { ClueTen }, nome : { NameM } ]

\* GET /admin and GET /admin/export
ReadRequests ==
    { Request("GET", "admin", 0, << >>), Request("GET", "export_csv", 0, << >>) }

NextReads ==
    \/ IndexLogin(Contributor, get_form_password)
    \/ \E form \in ReadForms : IndexContribution(Contributor, form)
    \/ IndexInsert(Contributor)
    \/ AdminLogin(Visitor, get_admin_password)
    \/ AdminLogout(Visitor)
    \/ AdminGet(Visitor)
    \/ ExportCsv(Visitor)
    \/ \E request \in ReadRequests : RateLimited(Visitor, request)
    \/ StoreFault
    \/ Hour

SpecReads == Init /\ [][NextReads]_vars

(***************************************************************************)
(* The specification of the protected routes: one visitor whose requests   *)
(* come with a valid CSRF token and within the limits, or without a valid  *)
(* token, or over a limit.                                                 *)
(***************************************************************************)
\* the form submissions: a login at each gate with its secret, the
\* contributions and the deletes
PostRequests ==
    { Request("POST", "index", 0, [ access_password |-> get_form_password ]),
      Request("POST", "admin", 0, [ password |-> get_admin_password ]) }
    \cup { Request("POST", "index", 0, form) : form \in AdminForms }
    \cup { Request("POST", "delete_submission", id, << >>) : id \in 1..MaxId }

\* the requests to the routes with a limit of their own
LimitedRequests ==
    PostRequests \cup
    { Request("GET", "index", 0, << >>), Request("GET", "admin", 0, << >>),
      Request("GET", "export_csv", 0, << >>) }

NextProtect ==
    \/ IndexLogin(Visitor, get_form_password)
    \/ AdminLogin(Visitor, get_admin_password)
    \/ \E form \in AdminForms : IndexContribution(Visitor, form)
    \/ IndexInsert(Visitor)
    \/ IndexGet(Visitor)
    \/ AdminGet(Visitor)
    \/ ExportCsv(Visitor)
    \/ \E id \in DeleteIds : DeleteSubmission(Visitor, id)
    \/ DeleteCommit(Visitor)
    \/ DeleteUnrouted(Visitor)
    \/ AdminLogout(Visitor)
    \/ FormLogout(Visitor)
    \/ \E request \in PostRequests : CsrfRejected(Visitor, request)
    \/ \E request \in LimitedRequests : RateLimited(Visitor, request)

SpecProtect == Init /\ [][NextProtect]_vars

(***************************************************************************)
(* The specification of the text functions: sanitize_input, is_valid_word  *)
(* and is_valid_clue are applied to every text of at most MaxLen pieces.   *)
(***************************************************************************)
\* the pieces of the texts: letters of the class of is_valid_word (none of
\* them a letter of a character reference), the
\* whitespace, a digit, a punctuation mark, an opening and a closing tag and
\* the markup characters on their own
Pieces ==
    { << "e" >>, << "Z" >>, << "è" >>, << " " >>, << "\t" >>, << "\n" >>, << "1" >>, << "!" >>,
      << "<", "b", ">" >>, << "<", "/", "b", ">" >>, << "<" >>, << ">" >>, << "&" >> }

RECURSIVE TextsOf(_)
TextsOf(n) ==
    IF n = 0 THEN { << >> }
    ELSE TextsOf(n - 1) \cup { t \o p : t \in TextsOf(n - 1), p \in Pieces }

Texts == TextsOf(MaxLen)

InitText ==
    /\ Init!1 /\ Init!2 /\ Init!3 /\ Init!4 /\ Init!5 /\ Init!6 /\ Init!7 /\ Init!8 /\ Init!9
    /\ store_ok = TRUE
    /\ \E text \in Texts : call = [ function |-> "", text |-> text, result |-> << >> ]

Returned(function, result) ==
    /\ call' = [ function |-> function, text |-> call.text, result |-> result ]
    /\ UNCHANGED << session, submissions, sqlite_sequence, now, handler, last, hour,
                    signed, granted, store_ok >>

SanitizeInput == Returned("sanitize_input", sanitize_input(call.text))

IsValidWord == Returned("is_valid_word", is_valid_word(call.text))

IsValidClue == Returned("is_valid_clue", is_valid_clue(call.text))

NextText ==
    \/ SanitizeInput
    \/ IsValidWord
    \/ IsValidClue

SpecText == InitText /\ [][NextText]_vars

(***************************************************************************)
(* Vocabulary of the properties.                                           *)
(***************************************************************************)
\* this step answers a request of client c
Answered(c) ==
    /\ last'.client = c
    /\ \/ handler[c].pc # "idle" /\ handler'[c].pc = "idle"
       \/ handler[c].pc = "idle" /\ handler'[c].pc = "idle" /\ last' # last

IsFormLogin(request) ==
    /\ request.method = "POST"
    /\ request.route = "index"
    /\ DOMAIN request.form = { "access_password" }

IsAdminLogin(request) ==
    /\ request.method = "POST"
    /\ request.route = "admin"
    /\ DOMAIN request.form = { "password" }

IsContribution(request) ==
    /\ request.method = "POST"
    /\ request.route = "index"
    /\ DOMAIN request.form = { "parola", "frase_indizio", "nome" }

IsDelete(request) == request.method = "POST" /\ request.route = "delete_submission"

IsUnroutedDelete(request) ==
    request.method = "POST" /\ request.route = MalformedDeletePath

IsFormLogout(request) == request.method = "GET" /\ request.route = "form_logout"

IsAdminLogout(request) == request.method = "GET" /\ request.route = "admin_logout"

IsIndexGet(request) == request.method = "GET" /\ request.route = "index"

IsAdminGet(request) == request.method = "GET" /\ request.route = "admin"

IsExport(request) == request.method = "GET" /\ request.route = "export_csv"

\* the rows of the table that hold the pair (word, clue)
RowsOfPair(rows, word, clue) ==
    { r \in rows : r.parola = word /\ r.frase_indizio = clue }

(***************************************************************************)
(* C1: a session flag goes from unset to set only in a step that answers   *)
(* a login of that session at that gate whose password comparison          *)
(* succeeded: form_access by a POST / with access_password equal (once     *)
(* sanitized) to the form password, admin_logged_in by a POST /admin with  *)
(* password equal (once sanitized) to the admin password.  No other step   *)
(* sets a flag.                                                            *)
(***************************************************************************)
C1_FlagsSetOnlyByLogin ==
    [][ \A c \in Clients :
          /\ (~session[c].form_access /\ session'[c].form_access) =>
                /\ Answered(c)
                /\ IsFormLogin(last'.request)
                /\ sanitize_input(last'.request.form.access_password) = get_form_password
          /\ (~session[c].admin_logged_in /\ session'[c].admin_logged_in) =>
                /\ Answered(c)
                /\ IsAdminLogin(last'.request)
                /\ sanitize_input(last'.request.form.password) = get_admin_password
      ]_vars

\* both flags are held, the second one set by the admin login just answered
C1_Witness ==
    /\ IsAdminLogin(last.request)
    /\ last.response = Redirect("admin", << >>)
    /\ session[last.client].admin_logged_in
    /\ session[last.client].form_access

(***************************************************************************)
(* C2: a row is added to the table only by a step that answers a           *)
(* contribution POST to / of a session that holds form_access; a           *)
(* contribution POST of a session without form_access is answered by the   *)
(* redirect to / (the login view) and leaves the table unchanged, whatever *)
(* its fields.                                                             *)
(***************************************************************************)
C2_InsertOnlyThroughGate ==
    [][ /\ (submissions' \ submissions # { }) =>
              \E c \in Clients :
                 /\ Answered(c)
                 /\ IsContribution(last'.request)
                 /\ session[c].form_access
        /\ \A c \in Clients :
              (Answered(c) /\ IsContribution(last'.request) /\ ~session[c].form_access) =>
                 /\ last'.response = Redirect("index", << >>)
                 /\ submissions' = submissions
                 /\ sqlite_sequence' = sqlite_sequence
      ]_vars

\* a contribution with valid fields was just refused for want of the flag,
\* and the table holds a row
C2_Witness ==
    /\ IsContribution(last.request)
    /\ ContributionValid(last.request.form)
    /\ ~session[last.client].form_access
    /\ last.response = Redirect("index", << >>)
    /\ submissions # { }

(***************************************************************************)
(* C3: an export or a delete request (whatever the id) of a session        *)
(* without admin_logged_in is answered with status 403, no redirect and no *)
(* record in the body, and the table and the session are unchanged; that   *)
(* the session holds form_access makes no difference.                      *)
(***************************************************************************)
C3_AdminRoutesRefused ==
    [][ \A c \in Clients :
          ( /\ Answered(c)
            /\ IsExport(last'.request) \/ IsDelete(last'.request)
            /\ ~session[c].admin_logged_in ) =>
             /\ last'.response = Abort(403)
             /\ submissions' = submissions
             /\ session' = session
      ]_vars

\* the delete of a stored row was just refused to a session that holds
\* form_access only
C3_Witness ==
    /\ IsDelete(last.request)
    /\ last.response.status = 403
    /\ session[last.client].form_access
    /\ ~session[last.client].admin_logged_in
    /\ \E r \in submissions : r.id = last.request.id

\* the triple passes the checks of the form and of the two validators
ValidTriple(form) ==
    /\ ContributionValid(form)
    /\ is_valid_word(sanitize_input(form.parola))
    /\ is_valid_clue(sanitize_input(form.frase_indizio))

\* the pair a contribution is looked up and stored under
StoredWord(form) == lower(sanitize_input(form.parola))
StoredClue(form) == sanitize_input(form.frase_indizio)
StoredName(form) == sanitize_input(form.nome)

\* this step adds exactly one row, with these columns, and changes no other
AddsRow(word, clue, name) ==
    \E r \in submissions' :
       /\ r \notin submissions
       /\ submissions' = submissions \cup { r }
       /\ \A q \in submissions : q.id # r.id
       /\ r.parola = word
       /\ r.frase_indizio = clue
       /\ r.nome = name

(***************************************************************************)
(* C4 as stated: no two rows of the table hold the same (word, clue) pair  *)
(* (the word is stored lowercased).                                        *)
(***************************************************************************)
C4_NoDuplicatePairs ==
    \A r1, r2 \in submissions :
       (r1.parola = r2.parola /\ r1.frase_indizio = r2.frase_indizio) => r1 = r2

(***************************************************************************)
(* C4 as amended: a row is inserted beside a row of the same pair only     *)
(* when that row was inserted after the duplicate lookup of the inserting  *)
(* submission (the two submissions overlapped); a submission whose lookup  *)
(* runs after the insert of a stored row of its pair never inserts.        *)
(***************************************************************************)
C4_DuplicatesOnlyByOverlap ==
    [][ \A c \in Clients :
          (handler[c].pc = "insert" /\ handler'[c].pc = "idle") =>
             \A r \in RowsOfPair(submissions, lower(handler[c].parola),
                                 handler[c].frase_indizio) :
                r.id > handler[c].seen
      ]_vars

\* two rows of one pair and different names, both inserted
C4_Witness ==
    \E r1, r2 \in submissions :
       /\ r1.id < r2.id
       /\ r1.parola = r2.parola
       /\ r1.frase_indizio = r2.frase_indizio
       /\ r1.nome # r2.nome

(***************************************************************************)
(* C5 as stated: a contribution with a valid triple, of a session that     *)
(* holds form_access, adds exactly one row, whose word is the lowercased   *)
(* submitted word and whose clue and name are the sanitized clue and       *)
(* name, the success view shows the name, and no other row changes.        *)
(***************************************************************************)
C5_ValidTripleStored ==
    [][ \A c \in Clients :
          ( /\ Answered(c)
            /\ IsContribution(last'.request)
            /\ session[c].form_access
            /\ ValidTriple(last'.request.form) ) =>
             /\ AddsRow(lower(last'.request.form.parola),
                        StoredClue(last'.request.form), StoredName(last'.request.form))
             /\ last'.response =
                   Render("success.html", << "thanks" >>, StoredName(last'.request.form))
      ]_vars

(***************************************************************************)
(* C5 as amended: a contribution with a valid triple, of a session that    *)
(* holds form_access, is refused only when a row of its (lowercased        *)
(* sanitized word, sanitized clue) pair is stored at the lookup, and then  *)
(* the table is unchanged; otherwise it adds exactly one row, whose word   *)
(* is the lowercased sanitized word and whose clue and name are the        *)
(* sanitized clue and name, the success view shows the sanitized name,     *)
(* and no other row changes.                                               *)
(***************************************************************************)
C5_ValidNewTripleStored ==
    [][ \A c \in Clients :
          ( /\ Answered(c)
            /\ IsContribution(last'.request)
            /\ session[c].form_access
            /\ ValidTriple(last'.request.form) ) =>
             IF /\ handler[c].pc = "idle"
                /\ RowsOfPair(submissions, StoredWord(last'.request.form),
                              StoredClue(last'.request.form)) # { }
             THEN submissions' = submissions
             ELSE /\ AddsRow(StoredWord(last'.request.form),
                             StoredClue(last'.request.form),
                             StoredName(last'.request.form))
                  /\ last'.response =
                        Render("success.html", << "thanks" >>,
                               StoredName(last'.request.form))
      ]_vars

\* the word with a capital and a space and the name with markup were just
\* stored beside an earlier row
C5_Witness ==
    /\ IsContribution(last.request)
    /\ last.request.form.parola = WordAb
    /\ last.request.form.nome = NameTagged
    /\ last.response.template = "success.html"
    /\ Cardinality(submissions) = 2
    /\ \E r \in submissions : r.id = sqlite_sequence /\ r.parola = << "a", "b" >>

(***************************************************************************)
(* C6: a valid contribution whose lookup runs when a row of its pair is    *)
(* stored (the earlier submission has committed) is answered with the      *)
(* form and the 'already recorded' message and writes nothing, whatever    *)
(* its name; it never gets to the INSERT.                                  *)
(***************************************************************************)
C6_SecondSubmissionRejected ==
    [][ \A c \in Clients :
          /\ ( /\ Answered(c)
               /\ handler[c].pc = "idle"
               /\ IsContribution(last'.request)
               /\ session[c].form_access
               /\ ValidTriple(last'.request.form)
               /\ RowsOfPair(submissions, StoredWord(last'.request.form),
                             StoredClue(last'.request.form)) # { } ) =>
                /\ last'.response = Render("index.html", << "already_recorded" >>, << >>)
                /\ submissions' = submissions
                /\ sqlite_sequence' = sqlite_sequence
          /\ (handler[c].pc = "idle" /\ handler'[c].pc = "insert") =>
                RowsOfPair(submissions, lower(handler'[c].parola),
                           handler'[c].frase_indizio) = { }
      ]_vars

\* the pair is stored once, under another name than the one just refused
C6_Witness ==
    /\ IsContribution(last.request)
    /\ last.response.flash = << "already_recorded" >>
    /\ Cardinality(RowsOfPair(submissions, StoredWord(last.request.form),
                              StoredClue(last.request.form))) = 1
    /\ \A r \in submissions : r.nome # StoredName(last.request.form)

(***************************************************************************)
(* C7: the INSERT of a submission that has passed the duplicate lookup     *)
(* does not look again: it adds its row and answers with the success view  *)
(* also when a row of the same pair has been inserted since the lookup,    *)
(* so the table comes to hold two rows of one pair.                        *)
(***************************************************************************)
C7_RacingInsertsBothSucceed ==
    [][ \A c \in Clients :
          (handler[c].pc = "insert" /\ handler'[c].pc = "idle") =>
             /\ AddsRow(lower(handler[c].parola), handler[c].frase_indizio,
                        handler[c].nome)
             /\ Answered(c)
             /\ last'.response.status = 200
             /\ last'.response.template = "success.html"
      ]_vars

\* both clients have been answered, the second one with the success view,
\* and the table holds its pair twice
C7_Witness ==
    /\ \A c \in Clients : handler[c].pc = "idle"
    /\ IsContribution(last.request)
    /\ last.response.template = "success.html"
    /\ Cardinality(RowsOfPair(submissions, StoredWord(last.request.form),
                              StoredClue(last.request.form))) = 2

(***************************************************************************)
(* C8: under fair scheduling of the handlers, every submission that has    *)
(* passed the duplicate lookup is eventually answered with the success     *)
(* view, the table then holding its row, whatever the other handlers do.   *)
(***************************************************************************)
C8_SubmissionsEventuallySucceed ==
    \A c \in Clients :
       (handler[c].pc = "insert")
          ~> ( /\ handler[c].pc = "idle"
               /\ last.client = c
               /\ IsContribution(last.request)
               /\ last.response =
                     Render("success.html", << "thanks" >>, StoredName(last.request.form))
               /\ \E r \in submissions :
                     /\ r.id = sqlite_sequence
                     /\ r.parola = StoredWord(last.request.form)
                     /\ r.frase_indizio = StoredClue(last.request.form)
                     /\ r.nome = StoredName(last.request.form) )

\* one client is between its lookup and its INSERT while the other one,
\* with another pair, has inserted after that lookup
C8_Witness ==
    \E c, d \in Clients :
       /\ c # d
       /\ handler[c].pc = "insert"
       /\ last.client = d
       /\ last.response.template = "success.html"
       /\ \E r \in submissions :
             /\ r.id > handler[c].seen
             /\ r.parola # lower(handler[c].parola)

(***************************************************************************)
(* C9: a delete request of a session that holds admin_logged_in, for an id *)
(* that is in the table, is answered after its DELETE: exactly the row of  *)
(* that id is removed, every other row is as it was, and the response is   *)
(* the redirect to /admin with the 'deleted' message.                      *)
(***************************************************************************)
C9_DeleteRemovesExactlyTheRow ==
    [][ \A c \in Clients :
          ( /\ Answered(c)
            /\ IsDelete(last'.request)
            /\ session[c].admin_logged_in
            /\ \E r \in submissions : r.id = last'.request.id ) =>
             /\ handler[c].pc = "delete"
             /\ submissions' = { r \in submissions : r.id # last'.request.id }
             /\ Cardinality(submissions') = Cardinality(submissions) - 1
             /\ sqlite_sequence' = sqlite_sequence
             /\ last'.response = Redirect("admin", << "deleted" >>)
      ]_vars

\* the row of the id was just deleted and a row of a smaller id is left
C9_Witness ==
    /\ IsDelete(last.request)
    /\ last.response = Redirect("admin", << "deleted" >>)
    /\ \A r \in submissions : r.id # last.request.id
    /\ \E r \in submissions : r.id < last.request.id

(***************************************************************************)
(* C10: a delete request of a session that holds admin_logged_in, for a    *)
(* positive id that is not in the table, is answered at once with the      *)
(* redirect to /admin and the 'not found' message, and the table is        *)
(* unchanged; it never gets to the DELETE.                                 *)
(***************************************************************************)
C10_DeleteUnknownIdNotFound ==
    [][ \A c \in Clients :
          /\ ( /\ Answered(c)
               /\ handler[c].pc = "idle"
               /\ IsDelete(last'.request)
               /\ session[c].admin_logged_in
               /\ last'.request.id > 0
               /\ \A r \in submissions : r.id # last'.request.id ) =>
                /\ last'.response = Redirect("admin", << "not_found" >>)
                /\ submissions' = submissions
                /\ sqlite_sequence' = sqlite_sequence
          /\ (handler[c].pc = "idle" /\ handler'[c].pc = "delete") =>
                \E r \in submissions : r.id = handler'[c].submission_id
      ]_vars

\* an id that was assigned and deleted was just answered 'not found',
\* beside a stored row
C10_Witness ==
    /\ IsDelete(last.request)
    /\ last.response = Redirect("admin", << "not_found" >>)
    /\ last.request.id > 0
    /\ last.request.id <= sqlite_sequence
    /\ submissions # { }

(***************************************************************************)
(* C11 as stated: a delete request of a session that holds                 *)
(* admin_logged_in whose id is not a positive integer (the id 0, or an id  *)
(* that is not a number) is answered with status 400 or 404, with no       *)
(* redirect and no flashed message, and the table is unchanged.            *)
(***************************************************************************)
C11_MalformedIdHardError ==
    [][ \A c \in Clients :
          ( /\ Answered(c)
            /\ session[c].admin_logged_in
            /\ \/ IsUnroutedDelete(last'.request)
               \/ IsDelete(last'.request) /\ last'.request.id = 0 ) =>
             /\ last'.response.status \in { 400, 404 }
             /\ last'.response.location = ""
             /\ last'.response.flash = << >>
             /\ submissions' = submissions
      ]_vars

(***************************************************************************)
(* What the handler does with the ids that are not positive: the path      *)
(* that is not a number is answered 404 by the routing, the id 0 is        *)
(* answered with the redirect to /admin and the 'delete failed' message;   *)
(* the table is unchanged in both cases.                                   *)
(***************************************************************************)
C11_ZeroIdRedirected ==
    [][ \A c \in Clients :
          (Answered(c) /\ session[c].admin_logged_in) =>
             /\ IsUnroutedDelete(last'.request) =>
                   last'.response = Abort(404) /\ submissions' = submissions
             /\ (IsDelete(last'.request) /\ last'.request.id = 0) =>
                   /\ last'.response = Redirect("admin", << "delete_failed" >>)
                   /\ submissions' = submissions
      ]_vars

\* the id 0 was just answered, to a session that holds admin_logged_in,
\* beside a stored row
C11_Witness ==
    /\ IsDelete(last.request)
    /\ last.request.id = 0
    /\ session[last.client].admin_logged_in
    /\ submissions # { }

(***************************************************************************)
(* C12 as stated: a login is granted (the flag of the gate is set and the  *)
(* response is the redirect to the gated view) exactly when the password   *)
(* submitted is equal to the secret of that gate, and denied (the session  *)
(* unchanged, the login view again) for every other password.              *)
(***************************************************************************)
C12_GrantedIffEqual ==
    [][ \A c \in Clients :
          /\ (Answered(c) /\ IsFormLogin(last'.request)) =>
                IF last'.request.form.access_password = get_form_password
                THEN /\ session'[c].form_access
                     /\ last'.response = Redirect("index", << >>)
                ELSE /\ session'[c] = session[c]
                     /\ last'.response.template = "form_login.html"
          /\ (Answered(c) /\ IsAdminLogin(last'.request)) =>
                IF last'.request.form.password = get_admin_password
                THEN /\ session'[c].admin_logged_in
                     /\ last'.response = Redirect("admin", << >>)
                ELSE /\ session'[c] = session[c]
                     /\ last'.response.template = "admin_login.html"
      ]_vars

(***************************************************************************)
(* What the handlers do: a login is granted exactly when the password      *)
(* submitted, with the whitespace around it trimmed and its tags removed   *)
(* (and the markup characters left written as entities), is equal to the   *)
(* secret of that gate; the secret with whitespace or a tag pair around it *)
(* is granted; every other password (another case, the other gate's        *)
(* secret, a blank, none) is denied, the session unchanged.                *)
(***************************************************************************)
C12_GrantedIffSanitizedEqual ==
    [][ \A c \in Clients :
          /\ (Answered(c) /\ IsFormLogin(last'.request)) =>
                IF bleach_clean(strip(last'.request.form.access_password))
                      = get_form_password
                THEN /\ session'[c].form_access
                     /\ last'.response = Redirect("index", << >>)
                ELSE /\ session'[c] = session[c]
                     /\ last'.response.template = "form_login.html"
          /\ (Answered(c) /\ IsAdminLogin(last'.request)) =>
                IF bleach_clean(strip(last'.request.form.password))
                      = get_admin_password
                THEN /\ session'[c].admin_logged_in
                     /\ last'.response = Redirect("admin", << >>)
                ELSE /\ session'[c] = session[c]
                     /\ last'.response.template = "admin_login.html"
      ]_vars

\* the admin secret inside a tag pair was just granted to a client that
\* had been granted the form gate, while the other client holds nothing
C12_Witness ==
    /\ IsAdminLogin(last.request)
    /\ last.request.form.password = Tagged(get_admin_password)
    /\ last.response = Redirect("admin", << >>)
    /\ session[last.client].admin_logged_in
    /\ session[last.client].form_access
    /\ \E d \in Clients : ~session[d].form_access /\ ~session[d].admin_logged_in

(***************************************************************************)
(* C13 as stated: a login that is not granted leaves the session (both     *)
(* flags) and the table as they were and is answered with the login view   *)
(* of its gate, status 200, with the wrong-password message.               *)
(***************************************************************************)
C13_FailedLoginWrongPassword ==
    [][ \A c \in Clients :
          /\ ( /\ Answered(c)
               /\ IsFormLogin(last'.request)
               /\ sanitize_input(last'.request.form.access_password)
                     # get_form_password ) =>
                /\ session' = session
                /\ submissions' = submissions
                /\ sqlite_sequence' = sqlite_sequence
                /\ last'.response = Render("form_login.html", << "wrong_password" >>, << >>)
          /\ ( /\ Answered(c)
               /\ IsAdminLogin(last'.request)
               /\ sanitize_input(last'.request.form.password) # get_admin_password ) =>
                /\ session' = session
                /\ submissions' = submissions
                /\ sqlite_sequence' = sqlite_sequence
                /\ last'.response = Render("admin_login.html", << "wrong_password" >>, << >>)
      ]_vars

(***************************************************************************)
(* C13 as amended: a login that is not granted leaves the session (both    *)
(* flags) and the table as they were and is answered with the login view   *)
(* of its gate, status 200 and no redirect; the view carries the           *)
(* wrong-password message when a password was submitted, and no such       *)
(* message when the password is empty or blank (the form is then refused   *)
(* by its required-field check, before any comparison).                    *)
(***************************************************************************)
C13_FailedLoginKeepsSession ==
    [][ \A c \in Clients :
          /\ ( /\ Answered(c)
               /\ IsFormLogin(last'.request)
               /\ sanitize_input(last'.request.form.access_password)
                     # get_form_password ) =>
                /\ session' = session
                /\ submissions' = submissions
                /\ sqlite_sequence' = sqlite_sequence
                /\ last'.response =
                      Render("form_login.html",
                             IF strip(last'.request.form.access_password) # << >>
                             THEN << "wrong_password" >> ELSE << >>,
                             << >>)
          /\ ( /\ Answered(c)
               /\ IsAdminLogin(last'.request)
               /\ sanitize_input(last'.request.form.password) # get_admin_password ) =>
                /\ session' = session
                /\ submissions' = submissions
                /\ sqlite_sequence' = sqlite_sequence
                /\ last'.response =
                      Render("admin_login.html",
                             IF strip(last'.request.form.password) # << >>
                             THEN << "wrong_password" >> ELSE << >>,
                             << >>)
      ]_vars

\* the form secret was just refused at the admin gate to a session that
\* holds both flags, beside a stored row
C13_Witness ==
    /\ IsAdminLogin(last.request)
    /\ last.request.form.password = get_form_password
    /\ last.response = Render("admin_login.html", << "wrong_password" >>, << >>)
    /\ session[last.client].admin_logged_in
    /\ session[last.client].form_access
    /\ submissions # { }

\* the session of client c with one flag changed to the value given
WithFormAccess(c, value) == [ session EXCEPT ![c].form_access = value ]
WithAdminLoggedIn(c, value) == [ session EXCEPT ![c].admin_logged_in = value ]

(***************************************************************************)
(* C14: the two gates are independent.  GET /logout unsets form_access     *)
(* and changes nothing else of any session, GET /admin/logout unsets       *)
(* admin_logged_in and changes nothing else; a login at one gate, granted  *)
(* or not, leaves the flag of the other gate as it was; the GET of the     *)
(* gated route that follows a logout is answered with the login view of    *)
(* that gate; and in every state each flag of each session can be changed  *)
(* (set by the login with the secret of its gate, unset by its logout) by  *)
(* one request that leaves everything else of the sessions as it is, so    *)
(* that all four combinations of the two flags are reached.                *)
(***************************************************************************)
C14_GatesIndependent ==
    /\ [][ \A c \in Clients :
             /\ (Answered(c) /\ IsFormLogout(last'.request)) =>
                   /\ session' = WithFormAccess(c, FALSE)
                   /\ last'.response.status = 302
             /\ (Answered(c) /\ IsAdminLogout(last'.request)) =>
                   /\ session' = WithAdminLoggedIn(c, FALSE)
                   /\ last'.response.status = 302
             /\ (Answered(c) /\ IsFormLogin(last'.request)) =>
                   session' \in { session, WithFormAccess(c, TRUE) }
             /\ (Answered(c) /\ IsAdminLogin(last'.request)) =>
                   session' \in { session, WithAdminLoggedIn(c, TRUE) }
             /\ ( /\ last.client = c
                  /\ IsFormLogout(last.request)
                  /\ Answered(c)
                  /\ IsIndexGet(last'.request) ) =>
                   last'.response = Render("form_login.html", << >>, << >>)
             /\ ( /\ last.client = c
                  /\ IsAdminLogout(last.request)
                  /\ Answered(c)
                  /\ IsAdminGet(last'.request) ) =>
                   last'.response = Render("admin_login.html", << >>, << >>)
         ]_vars
    /\ [](\A c \in Clients :
            /\ IF session[c].form_access
               THEN ENABLED (FormLogout(c) /\ session' = WithFormAccess(c, FALSE))
               ELSE ENABLED ( /\ IndexLogin(c, get_form_password)
                              /\ session' = WithFormAccess(c, TRUE) )
            /\ IF session[c].admin_logged_in
               THEN ENABLED (AdminLogout(c) /\ session' = WithAdminLoggedIn(c, FALSE))
               ELSE ENABLED ( /\ AdminLogin(c, get_admin_password)
                              /\ session' = WithAdminLoggedIn(c, TRUE) ))

\* one client holds only admin_logged_in, having just logged out of the
\* form gate, while the other client holds only form_access
C14_Witness ==
    /\ IsFormLogout(last.request)
    /\ ~session[last.client].form_access
    /\ session[last.client].admin_logged_in
    /\ \E d \in Clients : session[d].form_access /\ ~session[d].admin_logged_in

GatedTemplates == { "index.html", "success.html", "admin.html", "text/csv" }

NoGatedContent(response) ==
    response.template \notin GatedTemplates /\ response.body = << >>

(***************************************************************************)
(* C16 as stated: every request to a gated route (GET / and the            *)
(* contribution POST for the form gate; GET /admin, the export and the     *)
(* delete for the admin gate) of a session without the flag of that gate   *)
(* ends in the login view of that gate (rendered, or redirected to) and    *)
(* shows no gated content.                                                 *)
(***************************************************************************)
C16_AlwaysLoginView ==
    [][ \A c \in Clients :
          /\ ( /\ Answered(c)
               /\ IsIndexGet(last'.request) \/ IsContribution(last'.request)
               /\ ~session[c].form_access ) =>
                /\ \/ last'.response.template = "form_login.html"
                   \/ last'.response.location = "index"
                /\ NoGatedContent(last'.response)
          /\ ( /\ Answered(c)
               /\ \/ IsAdminGet(last'.request)
                  \/ IsExport(last'.request)
                  \/ IsDelete(last'.request)
               /\ ~session[c].admin_logged_in ) =>
                /\ \/ last'.response.template = "admin_login.html"
                   \/ last'.response.location = "admin"
                /\ NoGatedContent(last'.response)
      ]_vars

(***************************************************************************)
(* C16 as amended: without form_access, GET / is answered with the form    *)
(* login view (status 200) and the contribution POST with the redirect to  *)
(* /; without admin_logged_in, GET /admin is answered with the admin login *)
(* view (status 200), and the export and the delete with status 403 and    *)
(* no login view.  None of these responses shows the contribution form,    *)
(* the dashboard or any row, and the table is unchanged.                   *)
(***************************************************************************)
C16_LoginViewOrRefusal ==
    [][ \A c \in Clients :
          /\ (Answered(c) /\ ~session[c].form_access) =>
                /\ IsIndexGet(last'.request) =>
                      last'.response = Render("form_login.html", << >>, << >>)
                /\ IsContribution(last'.request) =>
                      last'.response = Redirect("index", << >>)
                /\ (IsIndexGet(last'.request) \/ IsContribution(last'.request)) =>
                      /\ NoGatedContent(last'.response)
                      /\ submissions' = submissions
          /\ (Answered(c) /\ ~session[c].admin_logged_in) =>
                /\ IsAdminGet(last'.request) =>
                      last'.response = Render("admin_login.html", << >>, << >>)
                /\ (IsExport(last'.request) \/ IsDelete(last'.request)) =>
                      last'.response = Abort(403)
                /\ ( \/ IsAdminGet(last'.request)
                     \/ IsExport(last'.request)
                     \/ IsDelete(last'.request) ) =>
                      /\ NoGatedContent(last'.response)
                      /\ submissions' = submissions
      ]_vars

\* the dashboard was just asked for by a session that holds form_access
\* only, beside a stored row, and the admin login view was the answer
C16_Witness ==
    /\ IsAdminGet(last.request)
    /\ last.response = Render("admin_login.html", << >>, << >>)
    /\ session[last.client].form_access
    /\ ~session[last.client].admin_logged_in
    /\ submissions # { }

\* the contribution fails a check: a required field or a length rule of the
\* form, the letters of the sanitized word, the length of the sanitized clue
FailsValidation(form) ==
    \/ ContributionErrors(form) # << >>
    \/ ~is_valid_word(sanitize_input(form.parola))
    \/ ~is_valid_clue(sanitize_input(form.frase_indizio))

\* the messages of the check that refuses the contribution
ValidationMessages(form) ==
    IF ContributionErrors(form) # << >> THEN ContributionErrors(form)
    ELSE IF ~is_valid_word(sanitize_input(form.parola)) THEN << "word_letters_only" >>
    ELSE << "clue_too_short" >>

(***************************************************************************)
(* C17: a contribution POST of a session that holds form_access and that   *)
(* fails a check (a required field, a length rule, a character of the      *)
(* sanitized word that is no letter, a sanitized clue of fewer than 10     *)
(* characters) is answered at once with the contribution form, status 200, *)
(* and the messages of the failing check, each naming its field; the       *)
(* table, the id counter and the session are unchanged, and the request    *)
(* never gets to the INSERT.                                               *)
(***************************************************************************)
C17_InvalidPersistsNothing ==
    [][ \A c \in Clients :
          /\ ( /\ Answered(c)
               /\ IsContribution(last'.request)
               /\ session[c].form_access
               /\ FailsValidation(last'.request.form) ) =>
                /\ handler[c].pc = "idle"
                /\ submissions' = submissions
                /\ sqlite_sequence' = sqlite_sequence
                /\ session' = session
                /\ last'.response =
                      Render("index.html", ValidationMessages(last'.request.form), << >>)
                /\ last'.response.flash # << >>
          /\ (handler[c].pc = "idle" /\ handler'[c].pc = "insert") =>
                ~FailsValidation(handler'[c].request.form)
      ]_vars

\* a clue of 10 characters that is 9 characters once trimmed was just
\* refused, with a valid word and a name, beside a stored row
C17_Witness ==
    /\ IsContribution(last.request)
    /\ last.request.form.frase_indizio = CluePadded
    /\ last.request.form.nome = NameM
    /\ last.response = Render("index.html", << "clue_too_short" >>, << >>)
    /\ session[last.client].form_access
    /\ submissions # { }

(***************************************************************************)
(* C18 as stated: every row of the table has a word of 1 to 50 characters, *)
(* each a letter (the accented vowels included) or a space, that is equal  *)
(* to its own lowercasing, and a clue of 10 to 200 characters.             *)
(***************************************************************************)
C18_StoredRowsFitDataModel ==
    \A r \in submissions :
       /\ Len(r.parola) >= 1
       /\ Len(r.parola) <= 50
       /\ \A i \in DOMAIN r.parola : r.parola[i] \in WordLetters \cup { " " }
       /\ r.parola = lower(r.parola)
       /\ Len(r.frase_indizio) >= 10
       /\ Len(r.frase_indizio) <= 200

(***************************************************************************)
(* What the handler keeps of C18: every row has a word of 1 to 50          *)
(* characters, each a letter or a whitespace character and one of them a   *)
(* letter, that is equal to its own lowercasing, and a clue of at least 10 *)
(* characters.                                                             *)
(***************************************************************************)
C18_StoredRowsFitValidators ==
    \A r \in submissions :
       /\ Len(r.parola) >= 1
       /\ Len(r.parola) <= 50
       /\ \A i \in DOMAIN r.parola : r.parola[i] \in WordLetters \cup Whitespace
       /\ r.parola = lower(r.parola)
       /\ strip(r.parola) # << >>
       /\ Len(r.frase_indizio) >= 10

\* a word of 50 letters is stored beside a word with a tab in it
C18_Witness ==
    \E r1, r2 \in submissions :
       /\ Len(r1.parola) = 50
       /\ \E i \in DOMAIN r2.parola : r2.parola[i] = "\t"

\* the step refuses the contribution: the form again, and no row written
Refused ==
    /\ last'.response.status = 200
    /\ last'.response.template = "index.html"
    /\ last'.response.flash # << >>
    /\ submissions' = submissions
    /\ sqlite_sequence' = sqlite_sequence

(***************************************************************************)
(* C19 as stated: a contribution whose name is empty or longer than 50     *)
(* characters is refused and writes no row, and every row of the table     *)
(* has a name of 1 to 50 characters.                                       *)
(***************************************************************************)
C19_NameRequired ==
    /\ [][ \A c \in Clients :
             ( /\ Answered(c)
               /\ IsContribution(last'.request)
               /\ session[c].form_access
               /\ \/ Len(last'.request.form.nome) < 1
                  \/ Len(last'.request.form.nome) > 50 ) => Refused
         ]_vars
    /\ [](\A r \in submissions : Len(r.nome) >= 1 /\ Len(r.nome) <= 50)

(***************************************************************************)
(* What the handler keeps of C19: a contribution whose name is empty,      *)
(* blank or longer than 50 characters is refused with the message of the   *)
(* name field and writes no row.                                           *)
(***************************************************************************)
C19_BadNameRefused ==
    [][ \A c \in Clients :
          ( /\ Answered(c)
            /\ IsContribution(last'.request)
            /\ session[c].form_access
            /\ \/ strip(last'.request.form.nome) = << >>
               \/ Len(last'.request.form.nome) > 50 ) =>
             /\ Refused
             /\ \E i \in DOMAIN last'.response.flash :
                   last'.response.flash[i] \in { "name_required", "name_length" }
      ]_vars

\* the contribution whose name is a pair of tags was just answered with
\* the success view, and its row has an empty name
C19_Witness ==
    /\ IsContribution(last.request)
    /\ last.request.form.nome = NameTagsOnly
    /\ last.response = Render("success.html", << "thanks" >>, << >>)
    /\ \E r \in submissions : r.id = sqlite_sequence /\ r.nome = << >>

\* the row matches the contribution: the same word whatever the case of
\* its letters, and the same clue character for character (word and clue
\* as they reach the guard: sanitized)
MatchesRow(r, form) ==
    /\ lower(r.parola) = lower(sanitize_input(form.parola))
    /\ r.frase_indizio = sanitize_input(form.frase_indizio)

(***************************************************************************)
(* C20: the duplicate guard matches exactly, without case on the word and  *)
(* with case on the clue.  A contribution that passes the checks, of a     *)
(* session that holds form_access, is refused as a duplicate if and only   *)
(* if, at its lookup, a row of the table has its word (whatever the case   *)
(* of the letters submitted) and its clue character for character: it is   *)
(* answered at the lookup only with the 'already recorded' message and     *)
(* only beside such a row, and it goes on to the INSERT only when there    *)
(* is no such row.  So a contribution that differs from a row only in the  *)
(* case of its word is refused, and one that differs only in the case of   *)
(* its clue is stored.                                                     *)
(***************************************************************************)
C20_DuplicateIffExactMatch ==
    [][ \A c \in Clients :
          /\ ( /\ Answered(c)
               /\ handler[c].pc = "idle"
               /\ IsContribution(last'.request)
               /\ session[c].form_access
               /\ ~FailsValidation(last'.request.form) ) =>
                /\ last'.response = Render("index.html", << "already_recorded" >>, << >>)
                /\ \E r \in submissions : MatchesRow(r, last'.request.form)
                /\ submissions' = submissions
          /\ (handler[c].pc = "idle" /\ handler'[c].pc = "insert") =>
                \A r \in submissions : ~MatchesRow(r, handler'[c].request.form)
          /\ ( /\ handler[c].pc = "insert"
               /\ handler'[c].pc = "idle"
               /\ \E r \in submissions :
                     /\ r.parola = lower(handler[c].parola)
                     /\ r.frase_indizio # handler[c].frase_indizio
                     /\ lower(r.frase_indizio) = lower(handler[c].frase_indizio) ) =>
                /\ Cardinality(submissions') = Cardinality(submissions) + 1
                /\ last'.response.template = "success.html"
      ]_vars

\* the word with a capital was just refused beside two rows of its word,
\* whose clues differ only in the case of a letter
C20_Witness ==
    /\ IsContribution(last.request)
    /\ last.request.form.parola = WordAb
    /\ last.response = Render("index.html", << "already_recorded" >>, << >>)
    /\ \E r1, r2 \in submissions :
          /\ r1.parola = WordLowerAb
          /\ r2.parola = WordLowerAb
          /\ r1.frase_indizio = ClueTen
          /\ r2.frase_indizio = ClueTenCapital

\* the text the function was applied to, once trimmed
Trimmed == strip(call.text)

(***************************************************************************)
(* C21 as stated: is_valid_word accepts a word exactly when, once trimmed, *)
(* it is not empty and each of its characters is a letter (a-z, A-Z, the   *)
(* accented vowels in either case) or a space; a word with a digit, a      *)
(* punctuation mark, a tab or a newline in it is rejected.                 *)
(***************************************************************************)
C21_LettersAndSpacesOnly ==
    call.function = "is_valid_word" =>
       ( call.result = TRUE <=>
            /\ Trimmed # << >>
            /\ \A i \in DOMAIN Trimmed : Trimmed[i] \in WordLetters \cup { " " } )

(***************************************************************************)
(* What is_valid_word does of C21: it accepts a word exactly when, once    *)
(* trimmed, it is not empty and each of its characters is a letter or a    *)
(* whitespace character: a space, a tab, a newline or a carriage return.   *)
(***************************************************************************)
C21_LettersAndWhitespace ==
    call.function = "is_valid_word" =>
       ( call.result = TRUE <=>
            /\ Trimmed # << >>
            /\ \A i \in DOMAIN Trimmed :
                  \/ Trimmed[i] \in Range(UpperSeq) \cup Range(LowerSeq)
                  \/ Trimmed[i] \in { " ", "\t", "\n", "\r" } )

\* a word with a tab between two letters was accepted
C21_Witness ==
    /\ call.function = "is_valid_word"
    /\ call.text = << "e", "\t", "Z" >>
    /\ call.result = TRUE

\* the step of client c that takes the contribution form of a session that
\* holds form_access: it answers it, or goes on to the INSERT
Submits(c, form) ==
    /\ handler[c].pc = "idle"
    /\ session[c].form_access
    /\ \/ Answered(c) /\ IsContribution(last'.request) /\ last'.request.form = form
       \/ handler'[c].pc = "insert" /\ handler'[c].request.form = form

\* word and name of the form pass every check made of them
WordAndNamePass(form) ==
    /\ DataRequired(form.parola)
    /\ Length(form.parola, WordMin, WordMax)
    /\ is_valid_word(sanitize_input(form.parola))
    /\ DataRequired(form.nome)
    /\ Length(form.nome, NameMin, NameMax)

ClueMessages == { "clue_required", "clue_length", "clue_too_short" }

\* the step refuses the contribution of client c with a message about the clue
RejectedForClue(c) ==
    /\ Answered(c)
    /\ last'.response.status = 200
    /\ last'.response.template = "index.html"
    /\ \E i \in DOMAIN last'.response.flash : last'.response.flash[i] \in ClueMessages

Sanitized(form) ==
    [ parola |-> sanitize_input(form.parola),
      frase_indizio |-> sanitize_input(form.frase_indizio),
      nome |-> sanitize_input(form.nome) ]

\* the step refuses the contribution of client c by a check of its fields
RejectedByCheck(c) ==
    /\ Answered(c)
    /\ last'.response.status = 200
    /\ last'.response.template = "index.html"
    /\ last'.response.flash # << >>
    /\ last'.response.flash # << "already_recorded" >>

(***************************************************************************)
(* C23 as stated: every required, length and character check of a          *)
(* contribution is made on the sanitized fields: the contribution is       *)
(* refused by a check exactly when the sanitized word, clue and name fail  *)
(* a required or length rule, the sanitized word has a character that is   *)
(* not allowed or the sanitized clue is too short; and a row is written    *)
(* with the sanitized fields.                                              *)
(***************************************************************************)
C23_ChecksSeeSanitized ==
    [][ \A c \in Clients : \A form \in BoundaryForms :
          /\ Submits(c, form) =>
                ( RejectedByCheck(c) <=>
                     \/ ContributionErrors(Sanitized(form)) # << >>
                     \/ ~is_valid_word(Sanitized(form).parola)
                     \/ ~is_valid_clue(Sanitized(form).frase_indizio) )
          /\ ( /\ handler[c].pc = "insert"
               /\ handler'[c].pc = "idle"
               /\ handler[c].request.form = form ) =>
                \E r \in submissions' \ submissions :
                   /\ r.parola = lower(Sanitized(form).parola)
                   /\ r.frase_indizio = Sanitized(form).frase_indizio
                   /\ r.nome = Sanitized(form).nome
      ]_vars

(***************************************************************************)
(* What the handler does of C23: the required and length rules of the form *)
(* are checked on the fields as submitted, the characters of the word and  *)
(* the shortest clue on the sanitized fields, and a row is written with    *)
(* the sanitized fields.                                                   *)
(***************************************************************************)
C23_FormChecksSeeSubmitted ==
    [][ \A c \in Clients : \A form \in BoundaryForms :
          /\ Submits(c, form) =>
                ( RejectedByCheck(c) <=>
                     \/ ContributionErrors(form) # << >>
                     \/ ~is_valid_word(Sanitized(form).parola)
                     \/ ~is_valid_clue(Sanitized(form).frase_indizio) )
          /\ ( /\ handler[c].pc = "insert"
               /\ handler'[c].pc = "idle"
               /\ handler[c].request.form = form ) =>
                \E r \in submissions' \ submissions :
                   /\ r.parola = lower(Sanitized(form).parola)
                   /\ r.frase_indizio = Sanitized(form).frase_indizio
                   /\ r.nome = Sanitized(form).nome
      ]_vars

\* the contribution with the clue of 200 characters that ends in an
\* ampersand was just stored: the length rule saw the clue as submitted, and
\* the row has the sanitized clue, which is longer
C23_Witness ==
    /\ IsContribution(last.request)
    /\ last.request.form.frase_indizio = ClueOfMaxAmp
    /\ last.response.template = "success.html"
    /\ \E r \in submissions :
          /\ r.frase_indizio = sanitize_input(ClueOfMaxAmp)
          /\ Len(r.frase_indizio) > Len(ClueOfMaxAmp)

\* the letters, digits and punctuation marks of s
PlainText(s) == SelectSeq(s, LAMBDA ch : ch \in { "e", "Z", "è", "1", "!" })

\* no "<" of s is followed by one of these: they are not the name of a tag
PlainTextOutsideTags(s) ==
    \A i \in 1..(Len(s) - 1) : s[i] = "<" => s[i + 1] \notin { "e", "Z" }

\* s has a tag delimiter or an ampersand in it
HasMarkup(s) == \E i \in DOMAIN s : s[i] \in { "<", ">", "&" }

(***************************************************************************)
(* C24 as stated: for every text, sanitize_input returns a text that has   *)
(* no whitespace at its ends and no "<" or ">" in it and keeps the letters, *)
(* digits and punctuation marks that are outside the tags in their order;  *)
(* a text without markup is returned as it is, trimmed, and the empty text *)
(* is returned empty.                                                      *)
(***************************************************************************)
C24_TrimmedWithoutTags ==
    call.function = "sanitize_input" =>
       /\ call.result = strip(call.result)
       /\ \A i \in DOMAIN call.result : call.result[i] \notin { "<", ">" }
       /\ PlainTextOutsideTags(call.text) => PlainText(call.result) = PlainText(call.text)
       /\ ~HasMarkup(call.text) => call.result = Trimmed
       /\ call.text = << >> => call.result = << >>

(***************************************************************************)
(* What sanitize_input does of C24: the text returned has no "<" or ">"    *)
(* in it and keeps the letters, digits and punctuation marks that are      *)
(* outside the tags in their order; a text without markup is returned as   *)
(* it is, trimmed, and the empty text is returned empty.  The text         *)
(* returned has whitespace at an end only where the text had whitespace    *)
(* next to markup.                                                         *)
(***************************************************************************)
C24_WithoutTags ==
    call.function = "sanitize_input" =>
       /\ \A i \in DOMAIN call.result : call.result[i] \notin { "<", ">" }
       /\ PlainTextOutsideTags(call.text) => PlainText(call.result) = PlainText(call.text)
       /\ ~HasMarkup(call.text) => call.result = Trimmed
       /\ call.text = << >> => call.result = << >>
       /\ call.result # strip(call.result) =>
             \E i \in 1..(Len(call.text) - 1) :
                \/ call.text[i] = ">" /\ call.text[i + 1] \in Whitespace
                \/ call.text[i] \in Whitespace /\ call.text[i + 1] = "<"

\* the text of a tag, a space and a letter was returned as the space and
\* the letter
C24_Witness ==
    /\ call.function = "sanitize_input"
    /\ call.text = << "<", "b", ">", " ", "e" >>
    /\ call.result = << " ", "e" >>

\* the step answers GET /admin of client c, who holds admin_logged_in, with
\* the dashboard
ListsDashboard(c) ==
    /\ Answered(c)
    /\ IsAdminGet(last'.request)
    /\ session[c].admin_logged_in
    /\ last'.response.template = "admin.html"

\* the sequence lists every row of the table exactly once
ListsEachOnce(listed, rows) ==
    /\ Len(listed) = Cardinality(rows)
    /\ \A r \in rows : \E i \in DOMAIN listed : listed[i] = r

(***************************************************************************)
(* C25 as stated: the dashboard of a session that holds admin_logged_in    *)
(* lists every row of the table exactly once, and of any two rows the one  *)
(* inserted later (the larger id) before the one inserted earlier.         *)
(***************************************************************************)
C25_NewestFirst ==
    [][ \A c \in Clients :
          ListsDashboard(c) =>
             /\ ListsEachOnce(last'.response.body, submissions)
             /\ \A i, j \in DOMAIN last'.response.body :
                   i < j => last'.response.body[i].id > last'.response.body[j].id
      ]_vars

(***************************************************************************)
(* What the handler does of C25: the dashboard lists every row of the      *)
(* table exactly once, a row with a later timestamp before a row with an   *)
(* earlier one; rows inserted in the same second have no order.            *)
(***************************************************************************)
C25_LatestSecondFirst ==
    [][ \A c \in Clients :
          ListsDashboard(c) =>
             /\ ListsEachOnce(last'.response.body, submissions)
             /\ \A i, j \in DOMAIN last'.response.body :
                   last'.response.body[i].timestamp > last'.response.body[j].timestamp
                      => i < j
      ]_vars

\* the dashboard listed two rows of the same second, the earlier one first
C25_Witness ==
    /\ IsAdminGet(last.request)
    /\ last.response.template = "admin.html"
    /\ Len(last.response.body) = 2
    /\ last.response.body[1].id < last.response.body[2].id
    /\ last.response.body[1].timestamp = last.response.body[2].timestamp

\* the step answers GET /admin/export of client c, who holds
\* admin_logged_in, while the database answers
Exports(c) ==
    /\ Answered(c)
    /\ IsExport(last'.request)
    /\ session[c].admin_logged_in
    /\ store_ok

\* the sequences that list every row of the table exactly once
Listings(rows) ==
    { s \in [ 1..Cardinality(rows) -> rows ] : \A i, j \in DOMAIN s : i # j => s[i] # s[j] }

\* the body is the header row and then one four-column line per row listed:
\* word, clue, the name or 'Anonimo' for the empty name, timestamp
IsCsvOf(body, listed) ==
    /\ Len(body) = Len(listed) + 1
    /\ body[1] = << "Parola", "Frase Indizio", "Nome", "Data" >>
    /\ \A i \in DOMAIN listed :
          /\ Len(body[i + 1]) = 4
          /\ body[i + 1][1] = listed[i].parola
          /\ body[i + 1][2] = listed[i].frase_indizio
          /\ listed[i].nome # << >> => body[i + 1][3] = listed[i].nome
          /\ listed[i].nome = << >> => body[i + 1][3] = << "A", "n", "o", "n", "i", "m", "o" >>
          /\ body[i + 1][4] = listed[i].timestamp

\* the headers say: an attachment with the fixed file name, not to be cached
IsUncachedAttachment(headers) ==
    /\ << "Content-Disposition", "attachment; filename=cruciverba_bianca.csv" >> \in headers
    /\ << "Cache-Control", "no-cache, no-store, must-revalidate" >> \in headers
    /\ << "Pragma", "no-cache" >> \in headers
    /\ << "Expires", "0" >> \in headers

(***************************************************************************)
(* C26 as stated: the export of a session that holds admin_logged_in is    *)
(* the header row and one four-column line per row of the table, the row   *)
(* inserted later before the row inserted earlier, with 'Anonimo' for an   *)
(* empty name, sent as an attachment that is not to be cached.             *)
(***************************************************************************)
C26_CsvNewestFirst ==
    [][ \A c \in Clients :
          Exports(c) =>
             /\ last'.response.status = 200
             /\ IsUncachedAttachment(last'.headers)
             /\ \E listed \in Listings(submissions) :
                   /\ IsCsvOf(last'.response.body, listed)
                   /\ \A i, j \in DOMAIN listed : i < j => listed[i].id > listed[j].id
      ]_vars

(***************************************************************************)
(* What the handler does of C26: the export is the header row and one      *)
(* four-column line per row of the table, a row with a later timestamp     *)
(* before a row with an earlier one, with 'Anonimo' for an empty name,     *)
(* sent as an attachment that is not to be cached.                         *)
(***************************************************************************)
C26_CsvLatestSecondFirst ==
    [][ \A c \in Clients :
          Exports(c) =>
             /\ last'.response.status = 200
             /\ IsUncachedAttachment(last'.headers)
             /\ \E listed \in Listings(submissions) :
                   /\ IsCsvOf(last'.response.body, listed)
                   /\ \A i, j \in DOMAIN listed :
                         listed[i].timestamp > listed[j].timestamp => i < j
      ]_vars

\* the export listed two rows of the same second, the word inserted first
\* before the other, one with its name and one with 'Anonimo'
C26_Witness ==
    /\ IsExport(last.request)
    /\ last.response.status = 200
    /\ Len(last.response.body) = 3
    /\ last.response.body[2][4] = last.response.body[3][4]
    /\ last.response.body[2][3] = NameM
    /\ last.response.body[3][3] = Anonimo
    /\ \E r1, r2 \in submissions :
          /\ r1.id < r2.id
          /\ r1.parola = last.response.body[2][1]
          /\ r2.parola = last.response.body[3][1]
          /\ r1.parola # r2.parola

(***************************************************************************)
(* C27: when the database does not answer, an export and a delete of a     *)
(* session that holds admin_logged_in are answered with the redirect to    *)
(* the admin view, status 302, and the flash of the failed operation, not  *)
(* with an error page; the table is as it was, also when the delete fails  *)
(* after its lookup found the row.                                         *)
(***************************************************************************)
C27_StoreFailureCaught ==
    [][ \A c \in Clients :
          ( /\ Answered(c)
            /\ session[c].admin_logged_in
            /\ ~store_ok
            /\ IsExport(last'.request) \/ IsDelete(last'.request) ) =>
             /\ last'.response.status = 302
             /\ last'.response.location = "admin"
             /\ last'.response.body = << >>
             /\ IsExport(last'.request) => last'.response.flash = << "export_failed" >>
             /\ IsDelete(last'.request) => last'.response.flash = << "delete_failed" >>
             /\ submissions' = submissions
             /\ sqlite_sequence' = sqlite_sequence
             /\ session' = session
      ]_vars

\* a delete of a stored row was just answered with the flash of the failed
\* delete while the database does not answer: the row is still there
C27_Witness ==
    /\ ~store_ok
    /\ IsDelete(last.request)
    /\ last.response = Redirect("admin", << "delete_failed" >>)
    /\ \E r \in submissions : r.id = last.request.id

\* the step answers a form submission of client c that has no valid CSRF
\* token
AnswersWithoutToken(c) ==
    /\ Answered(c)
    /\ last'.request.method = "POST"
    /\ last'.request.csrf_token # "valid"

(***************************************************************************)
(* C28 as stated: a login, contribution or delete POST without a valid     *)
(* CSRF token changes no session flag and no row, does not start its       *)
(* handler, and is answered with a redirect (a status from 300 to 399) to  *)
(* the home view with the security error flashed.                          *)
(***************************************************************************)
C28_CsrfRedirectsHome ==
    [][ \A c \in Clients :
          AnswersWithoutToken(c) =>
             /\ session' = session
             /\ submissions' = submissions
             /\ sqlite_sequence' = sqlite_sequence
             /\ handler' = handler
             /\ last'.response.status \in 300..399
             /\ last'.response.location = "index"
             /\ last'.response.flash = << "security_error" >>
      ]_vars

(***************************************************************************)
(* What the application does of C28: a login, contribution or delete POST  *)
(* without a valid CSRF token changes no session flag and no row, does not *)
(* start its handler, and is answered with the status 400, the location of *)
(* the home view and the security error flashed.                           *)
(***************************************************************************)
C28_CsrfRefused ==
    [][ \A c \in Clients :
          AnswersWithoutToken(c) =>
             /\ session' = session
             /\ submissions' = submissions
             /\ sqlite_sequence' = sqlite_sequence
             /\ handler' = handler
             /\ last'.response.status = 400
             /\ last'.response.location = "index"
             /\ last'.response.flash = << "security_error" >>
      ]_vars

\* a delete of a stored row, sent without a valid token by the session that
\* holds admin_logged_in, was just answered with the status 400: the row is
\* still there
C28_Witness ==
    /\ IsDelete(last.request)
    /\ last.request.csrf_token = "missing"
    /\ last.response.status = 400
    /\ session[last.client].admin_logged_in
    /\ \E r \in submissions : r.id = last.request.id

\* the values the headers give to the name
HeaderValues(headers, name) == { h[2] : h \in { g \in headers : g[1] = name } }

(***************************************************************************)
(* C29: every response sent (the views, the redirects, the 403 refusals,   *)
(* the 404 of the routing, the 400 of a CSRF error, the 429 of the         *)
(* limiter, the CSV download) has the headers X-Content-Type-Options:      *)
(* nosniff, X-Frame-Options: DENY, X-XSS-Protection,                       *)
(* Strict-Transport-Security with max-age=31536000 and includeSubDomains,  *)
(* Content-Security-Policy and Referrer-Policy, each with one value.       *)
(***************************************************************************)
C29_SecurityHeadersOnEveryResponse ==
    last.client # "" =>
       /\ HeaderValues(last.headers, "X-Content-Type-Options") = { "nosniff" }
       /\ HeaderValues(last.headers, "X-Frame-Options") = { "DENY" }
       /\ Cardinality(HeaderValues(last.headers, "X-XSS-Protection")) = 1
       /\ HeaderValues(last.headers, "Strict-Transport-Security")
             = { "max-age=31536000; includeSubDomains" }
       /\ Cardinality(HeaderValues(last.headers, "Content-Security-Policy")) = 1
       /\ Cardinality(HeaderValues(last.headers, "Referrer-Policy")) = 1

\* the response sent last is the CSV download, with the headers of the
\* export beside it
C29_Witness ==
    /\ IsExport(last.request)
    /\ last.response.status = 200
    /\ HeaderValues(last.headers, "Content-Disposition") # { }
    /\ HeaderValues(last.headers, "X-Frame-Options") = { "DENY" }
    /\ submissions # { }

(***************************************************************************)
(* C30: no step changes a row of the table in place: a row that is in the  *)
(* table before and after a step has the same id, word, clue, name and     *)
(* timestamp; a row leaves the table only in the step that answers the     *)
(* delete of its id with the flash of the deletion, and a row that enters  *)
(* the table has an id no row had before.                                  *)
(***************************************************************************)
C30_RowsNeverUpdated ==
    [][ /\ \A r \in submissions : \A q \in submissions' :
             q.id = r.id =>
                /\ q.parola = r.parola
                /\ q.frase_indizio = r.frase_indizio
                /\ q.nome = r.nome
                /\ q.timestamp = r.timestamp
        /\ \A r \in submissions :
             (\A q \in submissions' : q.id # r.id) =>
                /\ IsDelete(last'.request)
                /\ last'.request.id = r.id
                /\ last'.response.flash = << "deleted" >>
        /\ \A q \in submissions' :
             (\A r \in submissions : r.id # q.id) => q.id > sqlite_sequence
      ]_vars

\* a row inserted at second 0 is in the table at second 1, after the row
\* inserted before it was deleted and the contribution of its pair was
\* refused as a duplicate
C30_Witness ==
    /\ now = 1
    /\ IsContribution(last.request)
    /\ last.response.flash = << "already_recorded" >>
    /\ \E r \in submissions :
          /\ r.id = 2
          /\ r.timestamp = 0
          /\ r.parola = lower(sanitize_input(last.request.form.parola))
    /\ \A r \in submissions : r.id # 1

(***************************************************************************)
(* C31: no two rows of the table have the same id, no row has an id larger *)
(* than the largest id assigned, which never decreases, and the id of a    *)
(* row that enters the table is larger than every id assigned before it,   *)
(* also when the rows of those ids have been deleted.                      *)
(***************************************************************************)
C31_IdsUniqueNeverReused ==
    /\ [](\A r, q \in submissions : r.id = q.id => r = q)
    /\ [](\A r \in submissions : r.id >= 1 /\ r.id <= sqlite_sequence)
    /\ [][ /\ sqlite_sequence' >= sqlite_sequence
           /\ \A q \in submissions' \ submissions :
                 /\ q.id > sqlite_sequence
                 /\ q.id = sqlite_sequence'
      ]_vars

\* a contribution was just stored with the id 2 after the row with the id 1
\* was deleted: the table has the row 2 only
C31_Witness ==
    /\ IsContribution(last.request)
    /\ last.response.template = "success.html"
    /\ sqlite_sequence = 2
    /\ { r.id : r \in submissions } = { 2 }

(***************************************************************************)
(* C32: under fair scheduling of the handlers, every request that has run  *)
(* its lookup is eventually answered; the step after the lookup is the     *)
(* last one of the request (one lookup, which writes nothing, and at most  *)
(* one write), and it can be taken whatever the other handlers are doing:  *)
(* no handler waits for another request.                                   *)
(***************************************************************************)
C32_EveryRequestTerminates ==
    /\ \A c \in Clients : (handler[c].pc # "idle") ~> (handler[c].pc = "idle")
    /\ [](\A c \in Clients :
            /\ handler[c].pc = "insert" => ENABLED IndexInsert(c)
            /\ handler[c].pc = "delete" => ENABLED DeleteCommit(c))
    /\ [][ \A c \in Clients :
             /\ handler[c].pc # "idle" =>
                   \/ handler'[c] = handler[c]
                   \/ /\ handler'[c].pc = "idle"
                      /\ last'.client = c
                      /\ last'.request = handler[c].request
                      /\ last'.response.status \in { 200, 302 }
             /\ (handler[c].pc = "idle" /\ handler'[c].pc # "idle") =>
                   /\ submissions' = submissions
                   /\ sqlite_sequence' = sqlite_sequence
      ]_vars

\* one client is between its lookup and its INSERT while the other is
\* between its lookup and its DELETE
C32_Witness ==
    \E c, d \in Clients :
       /\ handler[c].pc = "insert"
       /\ handler[d].pc = "delete"
       /\ submissions # { }

\* the step answers a delete of client c with the flash of the deletion
ReportsDeleted(c) ==
    /\ Answered(c)
    /\ IsDelete(last'.request)
    /\ last'.response.flash = << "deleted" >>

(***************************************************************************)
(* C33 as stated: a delete is answered with the flash of the deletion only *)
(* by the step that removes the row of its id; as an id is never assigned  *)
(* twice, at most one delete of an id reports success, also when two       *)
(* deletes of the id are interleaved.                                      *)
(***************************************************************************)
C33_OneDeleteReportsSuccess ==
    [][ \A c \in Clients :
          ReportsDeleted(c) =>
             \E r \in submissions : r.id = last'.request.id /\ r \notin submissions'
      ]_vars

(***************************************************************************)
(* What the handler does of C33: a delete goes on to its DELETE only when  *)
(* its lookup finds the row of its id, and is answered with the not-found  *)
(* flash only when the lookup finds none; after a delete was answered with *)
(* the flash of the deletion, no row has its id.  Whether the DELETE       *)
(* removed a row is not looked at.                                         *)
(***************************************************************************)
C33_DeletedMeansAbsent ==
    [][ \A c \in Clients :
          /\ ReportsDeleted(c) => \A r \in submissions' : r.id # last'.request.id
          /\ (handler[c].pc = "idle" /\ handler'[c].pc = "delete") =>
                \E r \in submissions : r.id = handler'[c].submission_id
          /\ ( /\ Answered(c)
               /\ IsDelete(last'.request)
               /\ last'.response.flash = << "not_found" >> ) =>
                \A r \in submissions : r.id # last'.request.id
      ]_vars

\* a delete of an id was just answered with the flash of the deletion while
\* the other client, past its lookup of the same id, is about to run its
\* DELETE: the row is gone
C33_Witness ==
    \E c, d \in Clients :
       /\ c # d
       /\ handler[c].pc = "delete"
       /\ last.client = d
       /\ IsDelete(last.request)
       /\ last.request.id = handler[c].submission_id
       /\ last.response.flash = << "deleted" >>
       /\ \A r \in submissions : r.id # handler[c].submission_id

(***************************************************************************)
(* C34: the duplicate guard looks at the rows in the table and at nothing  *)
(* else.  The step that answers a delete with the flash of the deletion    *)
(* leaves no row of that id; a contribution whose pair was stored before   *)
(* and has no row in the table at the lookup is not refused but goes on to *)
(* its INSERT; and the INSERT adds one row of the pair with an id larger   *)
(* than every id assigned before.                                          *)
(***************************************************************************)
C34_DeletedPairAcceptedAgain ==
    [][ \A c \in Clients :
          /\ ( /\ Answered(c)
               /\ IsDelete(last'.request)
               /\ last'.response.flash = << "deleted" >> ) =>
                \A r \in submissions' : r.id # last'.request.id
          /\ ( /\ Submits(c, RepeatedForm)
               /\ sqlite_sequence >= 1
               /\ \A r \in submissions :
                     \/ r.parola # WordLowerAb
                     \/ r.frase_indizio # ClueTen ) =>
                /\ handler'[c].pc = "insert"
                /\ handler'[c].request.form = RepeatedForm
          /\ ( /\ handler[c].pc = "insert"
               /\ handler'[c].pc = "idle" ) =>
                /\ last'.response.template = "success.html"
                /\ \E r \in submissions' :
                      /\ submissions' = submissions \cup { r }
                      /\ r.id > sqlite_sequence
                      /\ r.parola = WordLowerAb
                      /\ r.frase_indizio = ClueTen
      ]_vars

\* the contribution, stored with the id 1 and deleted since, was just
\* stored again: the table has one row of the pair, and its id is 2
C34_Witness ==
    /\ IsContribution(last.request)
    /\ last.response.template = "success.html"
    /\ \A c \in Clients : handler[c].pc = "idle"
    /\ sqlite_sequence = 2
    /\ \E r \in submissions :
          /\ submissions = { r }
          /\ r.id = 2
          /\ r.parola = WordLowerAb
          /\ r.frase_indizio = ClueTen

(***************************************************************************)
(* C35: the dashboard and the export only read.  A step that answers       *)
(* GET /admin or GET /admin/export, with the listing or the CSV, with the  *)
(* login view or 403, with 429, with the 500 of the dashboard or the       *)
(* redirect of the failed export, leaves the rows of the table, the id     *)
(* counter, the flags every session holds and the requests in progress as  *)
(* they were.                                                              *)
(***************************************************************************)
\* this step answers a GET /admin or a GET /admin/export of client c
AnswersRead(c) ==
    /\ last'.client = c
    /\ IsAdminGet(last'.request) \/ IsExport(last'.request)
    /\ last' # last \/ signed' # signed

C35_AdminReadsChangeNothing ==
    [][ \A c \in Clients :
          AnswersRead(c) =>
            /\ submissions' = submissions
            /\ sqlite_sequence' = sqlite_sequence
            /\ handler' = handler
            /\ \A d \in Clients :
                  IF hour' - signed'[d] > PERMANENT_SESSION_LIFETIME
                  THEN open_session(d) = NoFlags
                  ELSE session'[d] = open_session(d)
      ]_vars

\* the export of an admin has just failed with rows stored and a
\* contribution in progress: the rows, the flags and the handler are there
C35_Witness ==
    /\ IsExport(last.request)
    /\ last.response.flash = << "export_failed" >>
    /\ ~store_ok
    /\ submissions # { }
    /\ handler[Contributor].pc = "insert"
    /\ open_session(Visitor).admin_logged_in
    /\ open_session(Contributor).form_access

====
